---- MODULE Spec2Model ----
(***************************************************************************)
(* A model of the spreadsheet parser of server/src/services/excelParser.ts *)
(* (parseExcelBuffer and the functions it calls).                          *)
(*                                                                         *)
(* Representation.                                                         *)
(*   - A string is a sequence of one-character strings; a character that   *)
(*     is not ASCII is a token ("NBSP", "oe", "aa", "delta").              *)
(*   - A JavaScript number is an integer count of tenths (Scale).          *)
(*   - An optional value (T | null) is <<>> for null and <<v>> for v.      *)
(*   - A worksheet is [name, rows]; rows is a sequence of rows, a row a    *)
(*     sequence of cells, all rows of a sheet of one length (columnCount). *)
(***************************************************************************)
EXTENDS Integers, Sequences, FiniteSets, TLC

\* ------------------------------------------------------------------------
\* Characters and strings
\* ------------------------------------------------------------------------

UpperCh == <<"A","B","C","D","E","F","G","H","I","J","K","L","M",
             "N","O","P","Q","R","S","T","U","V","W","X","Y","Z">>
LowerCh == <<"a","b","c","d","e","f","g","h","i","j","k","l","m",
             "n","o","p","q","r","s","t","u","v","w","x","y","z">>
DigitCh == <<"0","1","2","3","4","5","6","7","8","9">>

\* The characters \s matches, which are also the ones trim() strips.
WS == {" ", "\t", "\n", "NBSP"}

IsDigit(c) == \E i \in 1..10 : DigitCh[i] = c
DigitVal(c) == (CHOOSE i \in 1..10 : DigitCh[i] = c) - 1
IsWordCh(c) == \/ IsDigit(c)
               \/ \E i \in 1..26 : UpperCh[i] = c \/ LowerCh[i] = c
               \/ c = "_"

ToLowerCh(c) == IF \E i \in 1..26 : UpperCh[i] = c
                THEN LowerCh[CHOOSE i \in 1..26 : UpperCh[i] = c]
                ELSE c
ToLower(s) == [i \in 1..Len(s) |-> ToLowerCh(s[i])]

RECURSIVE TrimLeft(_)
TrimLeft(s) == IF s # <<>> /\ Head(s) \in WS THEN TrimLeft(Tail(s)) ELSE s
RECURSIVE TrimRight(_)
TrimRight(s) == IF s # <<>> /\ s[Len(s)] \in WS
                THEN TrimRight(SubSeq(s, 1, Len(s) - 1)) ELSE s
Trim(s) == TrimRight(TrimLeft(s))

StartsWith(s, p) == Len(s) >= Len(p) /\ SubSeq(s, 1, Len(p)) = p
StartsAt(s, i, p) == i + Len(p) - 1 <= Len(s) /\ SubSeq(s, i, i + Len(p) - 1) = p
Includes(s, p) == \E i \in 1..(Len(s) + 1) : StartsAt(s, i, p)
HasCh(s, c) == \E i \in 1..Len(s) : s[i] = c
\* s.indexOf(c), 1-based; 0 when absent
IndexOfCh(s, c) == IF HasCh(s, c) THEN CHOOSE i \in 1..Len(s) :
                        s[i] = c /\ \A j \in 1..(i - 1) : s[j] # c
                   ELSE 0
\* s.replace(/[cs]/g, "")
RemoveChars(s, cs) == SelectSeq(s, LAMBDA c : c \notin cs)
\* s.replace(c, d) with a string pattern: the first occurrence only
ReplaceFirstCh(s, c, d) ==
    [i \in 1..Len(s) |-> IF i = IndexOfCh(s, c) THEN d ELSE s[i]]

RECURSIVE Join(_, _)
Join(ss, sep) == IF ss = <<>> THEN <<>>
                 ELSE IF Len(ss) = 1 THEN ss[1]
                 ELSE ss[1] \o sep \o Join(Tail(ss), sep)

\* ------------------------------------------------------------------------
\* Numbers: an integer count of 1/Scale
\* ------------------------------------------------------------------------

Scale == 10

RECURSIVE NatToStr(_)
NatToStr(n) == IF n < 10 THEN <<DigitCh[n + 1]>>
               ELSE NatToStr(n \div 10) \o <<DigitCh[(n % 10) + 1]>>

\* String(v) for a number v
AbsToStr(a) ==
    NatToStr(a \div Scale)
      \o (IF a % Scale = 0 THEN <<>> ELSE <<".">> \o NatToStr(a % Scale))
NumToStr(v) == IF v < 0 THEN <<"-">> \o AbsToStr(0 - v) ELSE AbsToStr(v)

IsInteger(v) == v % Scale = 0

\* The digits of s from position i on, as long as they are digits.
RECURSIVE DigitRun(_, _)
DigitRun(s, i) == IF i <= Len(s) /\ IsDigit(s[i])
                  THEN <<s[i]>> \o DigitRun(s, i + 1) ELSE <<>>
RECURSIVE DigitsVal(_)
DigitsVal(ds) == IF ds = <<>> THEN 0
                 ELSE 10 * DigitsVal(SubSeq(ds, 1, Len(ds) - 1)) + DigitVal(ds[Len(ds)])

\* parseFloat(s): the longest numeric prefix (sign, digits, fraction); NaN is <<>>.
\* Fraction digits beyond the first are dropped (one decimal of precision); no
\* exponent and no "Infinity" occur in the strings of the model.
FloatOfParts(neg, ip, fp) ==
    IF ip = <<>> /\ fp = <<>> THEN <<>>
    ELSE IF neg
    THEN <<0 - (DigitsVal(ip) * Scale + (IF fp = <<>> THEN 0 ELSE DigitVal(fp[1])))>>
    ELSE <<DigitsVal(ip) * Scale + (IF fp = <<>> THEN 0 ELSE DigitVal(fp[1]))>>
FractionAt(s, dotp) ==
    IF dotp <= Len(s) /\ s[dotp] = "." THEN DigitRun(s, dotp + 1) ELSE <<>>
FloatFrom(s, sgn, ip) ==
    FloatOfParts(s # <<>> /\ s[1] = "-", ip, FractionAt(s, sgn + Len(ip) + 1))
FloatSigned(s, sgn) == FloatFrom(s, sgn, DigitRun(s, sgn + 1))
ParseFloat(s0) ==
    FloatSigned(TrimLeft(s0), IF TrimLeft(s0) # <<>> /\ TrimLeft(s0)[1] \in {"-", "+"}
                              THEN 1 ELSE 0)

\* parseInt(s) of a string of digits
ParseInt(ds) == DigitsVal(ds) * Scale

\* ------------------------------------------------------------------------
\* Regular expressions: a pattern is a tree; Ends(re, s, i) is the set of
\* positions at which a match of re that starts at position i of s can end.
\* ------------------------------------------------------------------------

Lit(cs)  == [k |-> "lit", s |-> cs]
Cls(set) == [k |-> "cls", cs |-> set]
AnyCh    == [k |-> "any"]
Bol      == [k |-> "bol"]
Eol      == [k |-> "eol"]
Wb       == [k |-> "wb"]
Cat(rs)  == [k |-> "cat", a |-> rs]
Alt(rs)  == [k |-> "alt", a |-> rs]
Opt(r)   == [k |-> "opt", r |-> r]
Star(r)  == [k |-> "star", r |-> r]
Plus(r)  == [k |-> "plus", r |-> r]
Sp       == Cls(WS)
Dg       == Cls({DigitCh[i] : i \in 1..10})

RECURSIVE Ends(_, _, _)
RECURSIVE EndsCat(_, _, _)
RECURSIVE EndsStar(_, _, _, _)
Ends(re, s, i) ==
    CASE re.k = "lit"  -> IF StartsAt(s, i, re.s) THEN {i + Len(re.s)} ELSE {}
      [] re.k = "cls"  -> IF i <= Len(s) /\ s[i] \in re.cs THEN {i + 1} ELSE {}
      [] re.k = "any"  -> IF i <= Len(s) /\ s[i] # "\n" THEN {i + 1} ELSE {}
      [] re.k = "bol"  -> IF i = 1 THEN {i} ELSE {}
      [] re.k = "eol"  -> IF i = Len(s) + 1 THEN {i} ELSE {}
      [] re.k = "wb"   -> IF (i > 1 /\ IsWordCh(s[i - 1])) # (i <= Len(s) /\ IsWordCh(s[i]))
                          THEN {i} ELSE {}
      [] re.k = "cat"  -> EndsCat(re.a, s, {i})
      [] re.k = "alt"  -> UNION {Ends(re.a[x], s, i) : x \in 1..Len(re.a)}
      [] re.k = "opt"  -> {i} \cup Ends(re.r, s, i)
      [] re.k = "star" -> EndsStar(re.r, s, {i}, {i})
      [] re.k = "plus" -> EndsStar(re.r, s, Ends(re.r, s, i), Ends(re.r, s, i))
EndsCat(rs, s, starts) ==
    IF rs = <<>> \/ starts = {} THEN starts
    ELSE EndsCat(Tail(rs), s, UNION {Ends(Head(rs), s, p) : p \in starts})
EndsStar(r, s, frontier, acc) ==
    LET new == UNION {Ends(r, s, p) : p \in frontier} \ acc
    IN  IF new = {} THEN acc ELSE EndsStar(r, s, new, acc \cup new)

\* re.test(s)
Test(re, s) == \E i \in 1..(Len(s) + 1) : Ends(re, s, i) # {}
\* re.test(s) for a pattern with the i flag (the pattern is written in lower case)
TestI(re, s) == Test(re, ToLower(s))

\* ------------------------------------------------------------------------
\* Cells (ExcelJS cell.value) and the Value Reader
\* ------------------------------------------------------------------------

NullCell      == [t |-> "null",    n |-> 0, s |-> <<>>, r |-> <<>>]
Num(v)        == [t |-> "num",     n |-> v, s |-> <<>>, r |-> <<>>]
Str(cs)       == [t |-> "str",     n |-> 0, s |-> cs,   r |-> <<>>]
\* a Date whose local and UTC calendar year are both y (30 June, noon UTC)
DateCell(y)   == [t |-> "date",    n |-> y, s |-> <<>>, r |-> <<>>]
\* { formula, result }: res is <<>> (no cached result) or <<value>>
Formula(res)  == [t |-> "formula", n |-> 0, s |-> <<>>, r |-> res]
\* { sharedFormula, result }
Shared(res)   == [t |-> "shared",  n |-> 0, s |-> <<>>, r |-> res]
\* { richText: [{text}, ...] }: runs is a sequence of Str cells, one per run
Rich(runs)    == [t |-> "rich",    n |-> 0, s |-> <<>>, r |-> runs]
\* true or false
Bool(b)       == [t |-> "bool",    n |-> IF b THEN 1 ELSE 0, s |-> <<>>, r |-> <<>>]
\* { text, hyperlink }
Hyperlink(cs) == [t |-> "hyperlink", n |-> 0, s |-> cs, r |-> <<>>]
\* { error: "#N/A" }
ErrorValue(cs) == [t |-> "error",  n |-> 0, s |-> cs,   r |-> <<>>]

\* richText.map(rt => rt.text || "").join("")
RECURSIVE Concat(_)
Concat(runs) == IF runs = <<>> THEN <<>> ELSE Head(runs).s \o Concat(Tail(runs))

\* richText?.map(...).join("").trim() || null
RichValue(txt) == IF txt = <<>> THEN NullCell ELSE Str(txt)

cellValue(cell) ==
    CASE cell.t = "null" -> NullCell
      [] cell.t \in {"formula", "shared"} ->
            IF cell.r = <<>> THEN NullCell ELSE cell.r[1]
      [] cell.t = "rich" -> RichValue(Trim(Concat(cell.r)))
      [] OTHER -> cell

\* Date.prototype.toISOString()
ToISOString(y) == NatToStr(y) \o <<"-","0","6","-","3","0","T","1","2",":","0","0",":",
                                   "0","0",".","0","0","0","Z">>

Sentinels == { <<"-">>, <<"-","-">>, <<"n","/","a">>, <<"N","/","A">> }

\* The cleaning with the comma always taken for a thousands separator
CleanNumberEnglish(s, hasComma, hasDot) == RemoveChars(s, WS \cup {","})

\* cellNum, from "let cleaned" on: s is the trimmed text
CleanNumber(s, hasComma, hasDot) ==
    IF hasComma /\ ~hasDot
    THEN ReplaceFirstCh(RemoveChars(s, WS), ",", ".")
    ELSE IF hasComma /\ hasDot
    THEN IF IndexOfCh(s, ".") < IndexOfCh(s, ",")
         THEN ReplaceFirstCh(RemoveChars(s, WS \cup {"."}), ",", ".")
         ELSE RemoveChars(s, WS \cup {","})
    ELSE RemoveChars(s, WS)

NumOfText(s) ==
    IF s = <<>> \/ s \in Sentinels THEN <<>>
    ELSE ParseFloat(CleanNumber(s, HasCh(s, ","), HasCh(s, ".")))

\* String(v) of a value that is not a number: a string is itself, a boolean is
\* "true" or "false", an object without a toString of its own is "[object Object]"
StringOf(v) ==
    CASE v.t = "bool" -> IF v.n = 1 THEN <<"t","r","u","e">> ELSE <<"f","a","l","s","e">>
      [] v.t \in {"hyperlink", "error"} -> <<"[","o","b","j","e","c","t"," ","O","b","j","e","c","t","]">>
      [] OTHER -> v.s

NumOfValue(v) ==
    CASE v.t = "null" -> <<>>
      [] v.t = "date" -> <<>>
      [] v.t = "num"  -> <<v.n>>
      [] OTHER -> NumOfText(Trim(StringOf(v)))

cellNum(cell) == NumOfValue(cellValue(cell))

StrOfValue(v) ==
    CASE v.t = "null" -> <<>>
      [] v.t = "date" -> ToISOString(v.n)
      [] v.t = "num"  -> Trim(NumToStr(v.n))
      [] OTHER -> Trim(StringOf(v))

cellStr(cell) == StrOfValue(cellValue(cell))

\* ------------------------------------------------------------------------
\* Row label normalization and mapping
\* ------------------------------------------------------------------------

\* s.replace(/\s+/g, " ")
RECURSIVE CollapseWs(_)
CollapseWs(s) ==
    IF s = <<>> THEN <<>>
    ELSE IF Head(s) \in WS THEN <<" ">> \o CollapseWs(TrimLeft(s))
    ELSE <<Head(s)>> \o CollapseWs(Tail(s))

\* s.replace(/[,.:;()]+$/g, "")
RECURSIVE StripTrailingPunct(_)
StripTrailingPunct(s) ==
    IF s # <<>> /\ s[Len(s)] \in {",", ".", ":", ";", "(", ")"}
    THEN StripTrailingPunct(SubSeq(s, 1, Len(s) - 1)) ELSE s

normalizeLabel(raw) ==
    Trim(RemoveChars(StripTrailingPunct(CollapseWs(ToLower(raw))), {"\"", "'"}))

FieldKeys == {
    "revenue_total", "revenue_managed_services", "revenue_professional_services",
    "revenue_other", "revenue_organic", "revenue_ma", "revenue_growth",
    "organic_growth", "acquired_revenue",
    "ebitda_total", "ebitda_margin", "ebitda_managed_services",
    "ebitda_professional_services", "ebitda_central_costs", "ebitda_organic",
    "ebitda_ma",
    "margin_managed_services", "margin_professional_services", "margin_central_costs",
    "capex", "capex_pct_revenue", "change_nwc", "other_cash_flow_items",
    "operating_fcf", "minority_interest", "operating_fcf_excl_minorities",
    "cash_conversion",
    "share_count", "nibd", "option_debt", "adjustments", "enterprise_value",
    "equity_value", "preferred_equity", "per_share_pre", "mip_amount", "tso_amount",
    "warrants_amount", "eqv_post_dilution", "per_share_post" }

\* field.startsWith("revenue"), field.startsWith("ebitda")
RevenueFields == { "revenue_total", "revenue_managed_services",
    "revenue_professional_services", "revenue_other", "revenue_organic",
    "revenue_ma", "revenue_growth" }
EbitdaFields == { "ebitda_total", "ebitda_margin", "ebitda_managed_services",
    "ebitda_professional_services", "ebitda_central_costs", "ebitda_organic",
    "ebitda_ma" }
CashflowFields == { "capex", "change_nwc", "operating_fcf", "cash_conversion",
    "other_cash_flow_items" }
EquityFields == { "share_count", "nibd", "enterprise_value", "equity_value" }

LABEL_MAPPINGS == <<
    \* 195: /^(total\s+)?revenue$/
    [re |-> Cat(<<Bol, Opt(Cat(<<Lit(<<"t","o","t","a","l">>), Plus(Sp)>>)), Lit(<<"r","e","v","e","n","u","e">>), Eol>>),
     field |-> "revenue_total"],
    \* 196: /^(total\s+)?omsetning$/
    [re |-> Cat(<<Bol, Opt(Cat(<<Lit(<<"t","o","t","a","l">>), Plus(Sp)>>)), Lit(<<"o","m","s","e","t","n","i","n","g">>), Eol>>),
     field |-> "revenue_total"],
    \* 197: /^(totale?\s+)?driftsinntekter$/
    [re |-> Cat(<<Bol, Opt(Cat(<<Lit(<<"t","o","t","a","l">>), Opt(Lit(<<"e">>)), Plus(Sp)>>)), Lit(<<"d","r","i","f","t","s","i","n","n","t","e","k","t","e","r">>), Eol>>),
     field |-> "revenue_total"],
    \* 198: /^inntekter?\s*(total)?$/
    [re |-> Cat(<<Bol, Lit(<<"i","n","n","t","e","k","t","e">>), Opt(Lit(<<"r">>)), Star(Sp), Opt(Lit(<<"t","o","t","a","l">>)), Eol>>),
     field |-> "revenue_total"],
    \* 199: /^turnover$/
    [re |-> Cat(<<Bol, Lit(<<"t","u","r","n","o","v","e","r">>), Eol>>),
     field |-> "revenue_total"],
    \* 200: /^net\s+(revenue|sales)/
    [re |-> Cat(<<Bol, Lit(<<"n","e","t">>), Plus(Sp), Alt(<<Lit(<<"r","e","v","e","n","u","e">>), Lit(<<"s","a","l","e","s">>)>>)>>),
     field |-> "revenue_total"],
    \* 201: /^netto\s+omsetning/
    [re |-> Cat(<<Bol, Lit(<<"n","e","t","t","o">>), Plus(Sp), Lit(<<"o","m","s","e","t","n","i","n","g">>)>>),
     field |-> "revenue_total"],
    \* 202: /^salgsinntekt/
    [re |-> Cat(<<Bol, Lit(<<"s","a","l","g","s","i","n","n","t","e","k","t">>)>>),
     field |-> "revenue_total"],
    \* 205: /managed\s+services?\s*(revenue|omsetning)?/
    [re |-> Cat(<<Lit(<<"m","a","n","a","g","e","d">>), Plus(Sp), Lit(<<"s","e","r","v","i","c","e">>), Opt(Lit(<<"s">>)), Star(Sp), Opt(Alt(<<Lit(<<"r","e","v","e","n","u","e">>), Lit(<<"o","m","s","e","t","n","i","n","g">>)>>))>>),
     field |-> "revenue_managed_services"],
    \* 206: /^a&p$/
    [re |-> Cat(<<Bol, Lit(<<"a","&","p">>), Eol>>),
     field |-> "revenue_managed_services"],
    \* 207: /^accounting\s*(&|and)\s*payroll/
    [re |-> Cat(<<Bol, Lit(<<"a","c","c","o","u","n","t","i","n","g">>), Star(Sp), Alt(<<Lit(<<"&">>), Lit(<<"a","n","d">>)>>), Star(Sp), Lit(<<"p","a","y","r","o","l","l">>)>>),
     field |-> "revenue_managed_services"],
    \* 208: /professional\s+services?\s*(revenue|omsetning)?/
    [re |-> Cat(<<Lit(<<"p","r","o","f","e","s","s","i","o","n","a","l">>), Plus(Sp), Lit(<<"s","e","r","v","i","c","e">>), Opt(Lit(<<"s">>)), Star(Sp), Opt(Alt(<<Lit(<<"r","e","v","e","n","u","e">>), Lit(<<"o","m","s","e","t","n","i","n","g">>)>>))>>),
     field |-> "revenue_professional_services"],
    \* 209: /^advisory$/
    [re |-> Cat(<<Bol, Lit(<<"a","d","v","i","s","o","r","y">>), Eol>>),
     field |-> "revenue_professional_services"],
    \* 210: /^raadgivning$/
    [re |-> Cat(<<Bol, Lit(<<"r","aa","d","g","i","v","n","i","n","g">>), Eol>>),
     field |-> "revenue_professional_services"],
    \* 211: /^licen[sc]e[sr]?$/
    [re |-> Cat(<<Bol, Lit(<<"l","i","c","e","n">>), Cls({"s","c"}), Lit(<<"e">>), Opt(Cls({"s","r"})), Eol>>),
     field |-> "revenue_other"],
    \* 212: /(other|annen|oevrig)\s*(revenue|omsetning|inntekt)/
    [re |-> Cat(<<Alt(<<Lit(<<"o","t","h","e","r">>), Lit(<<"a","n","n","e","n">>), Lit(<<"oe","v","r","i","g">>)>>), Star(Sp), Alt(<<Lit(<<"r","e","v","e","n","u","e">>), Lit(<<"o","m","s","e","t","n","i","n","g">>), Lit(<<"i","n","n","t","e","k","t">>)>>)>>),
     field |-> "revenue_other"],
    \* 213: /organic\s*(revenue|omsetning)/
    [re |-> Cat(<<Lit(<<"o","r","g","a","n","i","c">>), Star(Sp), Alt(<<Lit(<<"r","e","v","e","n","u","e">>), Lit(<<"o","m","s","e","t","n","i","n","g">>)>>)>>),
     field |-> "revenue_organic"],
    \* 214: /organisk\s*(omsetning|inntekt)/
    [re |-> Cat(<<Lit(<<"o","r","g","a","n","i","s","k">>), Star(Sp), Alt(<<Lit(<<"o","m","s","e","t","n","i","n","g">>), Lit(<<"i","n","n","t","e","k","t">>)>>)>>),
     field |-> "revenue_organic"],
    \* 215: /(m&a|ma|acquired)\s*(revenue|omsetning)/
    [re |-> Cat(<<Alt(<<Lit(<<"m","&","a">>), Lit(<<"m","a">>), Lit(<<"a","c","q","u","i","r","e","d">>)>>), Star(Sp), Alt(<<Lit(<<"r","e","v","e","n","u","e">>), Lit(<<"o","m","s","e","t","n","i","n","g">>)>>)>>),
     field |-> "revenue_ma"],
    \* 216: /oppkjoept\s*(omsetning|inntekt)/
    [re |-> Cat(<<Lit(<<"o","p","p","k","j","oe","p","t">>), Star(Sp), Alt(<<Lit(<<"o","m","s","e","t","n","i","n","g">>), Lit(<<"i","n","n","t","e","k","t">>)>>)>>),
     field |-> "revenue_ma"],
    \* 219: /acquired\s+revenue/
    [re |-> Cat(<<Lit(<<"a","c","q","u","i","r","e","d">>), Plus(Sp), Lit(<<"r","e","v","e","n","u","e">>)>>),
     field |-> "acquired_revenue"],
    \* 220: /oppkjoept\s+omsetning/
    [re |-> Cat(<<Lit(<<"o","p","p","k","j","oe","p","t">>), Plus(Sp), Lit(<<"o","m","s","e","t","n","i","n","g">>)>>),
     field |-> "acquired_revenue"],
    \* 223: /^(total\s+)?(revenue|omsetning)\s*(growth|vekst)/
    [re |-> Cat(<<Bol, Opt(Cat(<<Lit(<<"t","o","t","a","l">>), Plus(Sp)>>)), Alt(<<Lit(<<"r","e","v","e","n","u","e">>), Lit(<<"o","m","s","e","t","n","i","n","g">>)>>), Star(Sp), Alt(<<Lit(<<"g","r","o","w","t","h">>), Lit(<<"v","e","k","s","t">>)>>)>>),
     field |-> "revenue_growth"],
    \* 224: /^(total\s+)?vekst\s*%?$/
    [re |-> Cat(<<Bol, Opt(Cat(<<Lit(<<"t","o","t","a","l">>), Plus(Sp)>>)), Lit(<<"v","e","k","s","t">>), Star(Sp), Opt(Lit(<<"%">>)), Eol>>),
     field |-> "revenue_growth"],
    \* 225: /^%\s*growth$/
    [re |-> Cat(<<Bol, Lit(<<"%">>), Star(Sp), Lit(<<"g","r","o","w","t","h">>), Eol>>),
     field |-> "revenue_growth"],
    \* 228: /organic\s+growth/
    [re |-> Cat(<<Lit(<<"o","r","g","a","n","i","c">>), Plus(Sp), Lit(<<"g","r","o","w","t","h">>)>>),
     field |-> "organic_growth"],
    \* 229: /organisk\s+vekst/
    [re |-> Cat(<<Lit(<<"o","r","g","a","n","i","s","k">>), Plus(Sp), Lit(<<"v","e","k","s","t">>)>>),
     field |-> "organic_growth"],
    \* 232: /^(total\s+)?ebitda$/
    [re |-> Cat(<<Bol, Opt(Cat(<<Lit(<<"t","o","t","a","l">>), Plus(Sp)>>)), Lit(<<"e","b","i","t","d","a">>), Eol>>),
     field |-> "ebitda_total"],
    \* 233: /^(total\s+)?ebitda\s*\(?(pre|ex|excl)/
    [re |-> Cat(<<Bol, Opt(Cat(<<Lit(<<"t","o","t","a","l">>), Plus(Sp)>>)), Lit(<<"e","b","i","t","d","a">>), Star(Sp), Opt(Lit(<<"(">>)), Alt(<<Lit(<<"p","r","e">>), Lit(<<"e","x">>), Lit(<<"e","x","c","l">>)>>)>>),
     field |-> "ebitda_total"],
    \* 234: /^driftsresultat\s*(foer\s*avskr)?/
    [re |-> Cat(<<Bol, Lit(<<"d","r","i","f","t","s","r","e","s","u","l","t","a","t">>), Star(Sp), Opt(Cat(<<Lit(<<"f","oe","r">>), Star(Sp), Lit(<<"a","v","s","k","r">>)>>))>>),
     field |-> "ebitda_total"],
    \* 237: /^ebitda\s*(%|margin|prosent)/
    [re |-> Cat(<<Bol, Lit(<<"e","b","i","t","d","a">>), Star(Sp), Alt(<<Lit(<<"%">>), Lit(<<"m","a","r","g","i","n">>), Lit(<<"p","r","o","s","e","n","t">>)>>)>>),
     field |-> "ebitda_margin"],
    \* 238: /^ebitda-margin/
    [re |-> Cat(<<Bol, Lit(<<"e","b","i","t","d","a","-","m","a","r","g","i","n">>)>>),
     field |-> "ebitda_margin"],
    \* 239: /^margin\s*%?$/
    [re |-> Cat(<<Bol, Lit(<<"m","a","r","g","i","n">>), Star(Sp), Opt(Lit(<<"%">>)), Eol>>),
     field |-> "ebitda_margin"],
    \* 242: /ebitda\s*managed/
    [re |-> Cat(<<Lit(<<"e","b","i","t","d","a">>), Star(Sp), Lit(<<"m","a","n","a","g","e","d">>)>>),
     field |-> "ebitda_managed_services"],
    \* 243: /ebitda\s*professional/
    [re |-> Cat(<<Lit(<<"e","b","i","t","d","a">>), Star(Sp), Lit(<<"p","r","o","f","e","s","s","i","o","n","a","l">>)>>),
     field |-> "ebitda_professional_services"],
    \* 244: /^(central|sentrale?)\s*(costs?|kostnader?)/
    [re |-> Cat(<<Bol, Alt(<<Lit(<<"c","e","n","t","r","a","l">>), Cat(<<Lit(<<"s","e","n","t","r","a","l">>), Opt(Lit(<<"e">>))>>)>>), Star(Sp), Alt(<<Cat(<<Lit(<<"c","o","s","t">>), Opt(Lit(<<"s">>))>>), Cat(<<Lit(<<"k","o","s","t","n","a","d","e">>), Opt(Lit(<<"r">>))>>)>>)>>),
     field |-> "ebitda_central_costs"],
    \* 245: /ebitda\s*organic/
    [re |-> Cat(<<Lit(<<"e","b","i","t","d","a">>), Star(Sp), Lit(<<"o","r","g","a","n","i","c">>)>>),
     field |-> "ebitda_organic"],
    \* 246: /ebitda\s*organisk/
    [re |-> Cat(<<Lit(<<"e","b","i","t","d","a">>), Star(Sp), Lit(<<"o","r","g","a","n","i","s","k">>)>>),
     field |-> "ebitda_organic"],
    \* 247: /^organic\s+ebitda/
    [re |-> Cat(<<Bol, Lit(<<"o","r","g","a","n","i","c">>), Plus(Sp), Lit(<<"e","b","i","t","d","a">>)>>),
     field |-> "ebitda_organic"],
    \* 248: /^organisk\s+ebitda/
    [re |-> Cat(<<Bol, Lit(<<"o","r","g","a","n","i","s","k">>), Plus(Sp), Lit(<<"e","b","i","t","d","a">>)>>),
     field |-> "ebitda_organic"],
    \* 249: /ebitda\s*(m&a|ma|acquired)/
    [re |-> Cat(<<Lit(<<"e","b","i","t","d","a">>), Star(Sp), Alt(<<Lit(<<"m","&","a">>), Lit(<<"m","a">>), Lit(<<"a","c","q","u","i","r","e","d">>)>>)>>),
     field |-> "ebitda_ma"],
    \* 252: /^capex$/
    [re |-> Cat(<<Bol, Lit(<<"c","a","p","e","x">>), Eol>>),
     field |-> "capex"],
    \* 253: /^(total\s+)?capex/
    [re |-> Cat(<<Bol, Opt(Cat(<<Lit(<<"t","o","t","a","l">>), Plus(Sp)>>)), Lit(<<"c","a","p","e","x">>)>>),
     field |-> "capex"],
    \* 254: /^investering(er)?$/
    [re |-> Cat(<<Bol, Lit(<<"i","n","v","e","s","t","e","r","i","n","g">>), Opt(Lit(<<"e","r">>)), Eol>>),
     field |-> "capex"],
    \* 255: /capex.*%\s*(of\s+)?rev/
    [re |-> Cat(<<Lit(<<"c","a","p","e","x">>), Star(AnyCh), Lit(<<"%">>), Star(Sp), Opt(Cat(<<Lit(<<"o","f">>), Plus(Sp)>>)), Lit(<<"r","e","v">>)>>),
     field |-> "capex_pct_revenue"],
    \* 256: /capex\s*%/
    [re |-> Cat(<<Lit(<<"c","a","p","e","x">>), Star(Sp), Lit(<<"%">>)>>),
     field |-> "capex_pct_revenue"],
    \* 258: /^(change\s+in\s+)?n(et\s+)?w(orking\s+)?c(apital)?/
    [re |-> Cat(<<Bol, Opt(Cat(<<Lit(<<"c","h","a","n","g","e">>), Plus(Sp), Lit(<<"i","n">>), Plus(Sp)>>)), Lit(<<"n">>), Opt(Cat(<<Lit(<<"e","t">>), Plus(Sp)>>)), Lit(<<"w">>), Opt(Cat(<<Lit(<<"o","r","k","i","n","g">>), Plus(Sp)>>)), Lit(<<"c">>), Opt(Lit(<<"a","p","i","t","a","l">>))>>),
     field |-> "change_nwc"],
    \* 259: /^endring\s*(i\s+)?arbeidskapital/
    [re |-> Cat(<<Bol, Lit(<<"e","n","d","r","i","n","g">>), Star(Sp), Opt(Cat(<<Lit(<<"i">>), Plus(Sp)>>)), Lit(<<"a","r","b","e","i","d","s","k","a","p","i","t","a","l">>)>>),
     field |-> "change_nwc"],
    \* 260: /^delta?\s*nwc/
    [re |-> Cat(<<Bol, Opt(Lit(<<"delta">>)), Star(Sp), Lit(<<"n","w","c">>)>>),
     field |-> "change_nwc"],
    \* 261: /^working\s*capital\s*(change)?/
    [re |-> Cat(<<Bol, Lit(<<"w","o","r","k","i","n","g">>), Star(Sp), Lit(<<"c","a","p","i","t","a","l">>), Star(Sp), Opt(Lit(<<"c","h","a","n","g","e">>))>>),
     field |-> "change_nwc"],
    \* 263: /^other\s*(cash\s*flow|cf)\s*(items)?/
    [re |-> Cat(<<Bol, Lit(<<"o","t","h","e","r">>), Star(Sp), Alt(<<Cat(<<Lit(<<"c","a","s","h">>), Star(Sp), Lit(<<"f","l","o","w">>)>>), Lit(<<"c","f">>)>>), Star(Sp), Opt(Lit(<<"i","t","e","m","s">>))>>),
     field |-> "other_cash_flow_items"],
    \* 264: /^andre\s*(kontantstroem|cf)\s*(poster)?/
    [re |-> Cat(<<Bol, Lit(<<"a","n","d","r","e">>), Star(Sp), Alt(<<Lit(<<"k","o","n","t","a","n","t","s","t","r","oe","m">>), Lit(<<"c","f">>)>>), Star(Sp), Opt(Lit(<<"p","o","s","t","e","r">>))>>),
     field |-> "other_cash_flow_items"],
    \* 265: /^oevrige\s*(poster|kontantstroem)/
    [re |-> Cat(<<Bol, Lit(<<"oe","v","r","i","g","e">>), Star(Sp), Alt(<<Lit(<<"p","o","s","t","e","r">>), Lit(<<"k","o","n","t","a","n","t","s","t","r","oe","m">>)>>)>>),
     field |-> "other_cash_flow_items"],
    \* 267: /^operating\s*(fcf|free\s*cash\s*flow)$/
    [re |-> Cat(<<Bol, Lit(<<"o","p","e","r","a","t","i","n","g">>), Star(Sp), Alt(<<Lit(<<"f","c","f">>), Cat(<<Lit(<<"f","r","e","e">>), Star(Sp), Lit(<<"c","a","s","h">>), Star(Sp), Lit(<<"f","l","o","w">>)>>)>>), Eol>>),
     field |-> "operating_fcf"],
    \* 268: /^operasjonell\s*(fcf|fri\s*kontantstroem)/
    [re |-> Cat(<<Bol, Lit(<<"o","p","e","r","a","s","j","o","n","e","l","l">>), Star(Sp), Alt(<<Lit(<<"f","c","f">>), Cat(<<Lit(<<"f","r","i">>), Star(Sp), Lit(<<"k","o","n","t","a","n","t","s","t","r","oe","m">>)>>)>>)>>),
     field |-> "operating_fcf"],
    \* 269: /^op\.?\s*fcf/
    [re |-> Cat(<<Bol, Lit(<<"o","p">>), Opt(Lit(<<".">>)), Star(Sp), Lit(<<"f","c","f">>)>>),
     field |-> "operating_fcf"],
    \* 270: /^(total\s+)?fcf$/
    [re |-> Cat(<<Bol, Opt(Cat(<<Lit(<<"t","o","t","a","l">>), Plus(Sp)>>)), Lit(<<"f","c","f">>), Eol>>),
     field |-> "operating_fcf"],
    \* 271: /^fri\s*kontantstroem/
    [re |-> Cat(<<Bol, Lit(<<"f","r","i">>), Star(Sp), Lit(<<"k","o","n","t","a","n","t","s","t","r","oe","m">>)>>),
     field |-> "operating_fcf"],
    \* 273: /^minority\s*(interest)?$/
    [re |-> Cat(<<Bol, Lit(<<"m","i","n","o","r","i","t","y">>), Star(Sp), Opt(Lit(<<"i","n","t","e","r","e","s","t">>)), Eol>>),
     field |-> "minority_interest"],
    \* 274: /^minoritet(sinteresse)?/
    [re |-> Cat(<<Bol, Lit(<<"m","i","n","o","r","i","t","e","t">>), Opt(Lit(<<"s","i","n","t","e","r","e","s","s","e">>))>>),
     field |-> "minority_interest"],
    \* 276: /^(operating\s+)?fcf\s*(excl|ex|etter)\s*minor/
    [re |-> Cat(<<Bol, Opt(Cat(<<Lit(<<"o","p","e","r","a","t","i","n","g">>), Plus(Sp)>>)), Lit(<<"f","c","f">>), Star(Sp), Alt(<<Lit(<<"e","x","c","l">>), Lit(<<"e","x">>), Lit(<<"e","t","t","e","r">>)>>), Star(Sp), Lit(<<"m","i","n","o","r">>)>>),
     field |-> "operating_fcf_excl_minorities"],
    \* 278: /^cash\s*conversion/
    [re |-> Cat(<<Bol, Lit(<<"c","a","s","h">>), Star(Sp), Lit(<<"c","o","n","v","e","r","s","i","o","n">>)>>),
     field |-> "cash_conversion"],
    \* 279: /^kontant(konvertering|omregning)/
    [re |-> Cat(<<Bol, Lit(<<"k","o","n","t","a","n","t">>), Alt(<<Lit(<<"k","o","n","v","e","r","t","e","r","i","n","g">>), Lit(<<"o","m","r","e","g","n","i","n","g">>)>>)>>),
     field |-> "cash_conversion"],
    \* 282: /^number\s+of\s+shares/
    [re |-> Cat(<<Bol, Lit(<<"n","u","m","b","e","r">>), Plus(Sp), Lit(<<"o","f">>), Plus(Sp), Lit(<<"s","h","a","r","e","s">>)>>),
     field |-> "share_count"],
    \* 283: /^antall\s+aksjer/
    [re |-> Cat(<<Bol, Lit(<<"a","n","t","a","l","l">>), Plus(Sp), Lit(<<"a","k","s","j","e","r">>)>>),
     field |-> "share_count"],
    \* 284: /^aksjer\s*(utestaaende)?$/
    [re |-> Cat(<<Bol, Lit(<<"a","k","s","j","e","r">>), Star(Sp), Opt(Lit(<<"u","t","e","s","t","aa","e","n","d","e">>)), Eol>>),
     field |-> "share_count"],
    \* 286: /^nibd/
    [re |-> Cat(<<Bol, Lit(<<"n","i","b","d">>)>>),
     field |-> "nibd"],
    \* 287: /^net(to)?\s*(interest\s+bearing\s+)?debt/
    [re |-> Cat(<<Bol, Lit(<<"n","e","t">>), Opt(Lit(<<"t","o">>)), Star(Sp), Opt(Cat(<<Lit(<<"i","n","t","e","r","e","s","t">>), Plus(Sp), Lit(<<"b","e","a","r","i","n","g">>), Plus(Sp)>>)), Lit(<<"d","e","b","t">>)>>),
     field |-> "nibd"],
    \* 288: /^netto\s*(rente(baerende)?\s*)?gjeld/
    [re |-> Cat(<<Bol, Lit(<<"n","e","t","t","o">>), Star(Sp), Opt(Cat(<<Lit(<<"r","e","n","t","e">>), Opt(Lit(<<"b","ae","r","e","n","d","e">>)), Star(Sp)>>)), Lit(<<"g","j","e","l","d">>)>>),
     field |-> "nibd"],
    \* 290: /^option\s*debt/
    [re |-> Cat(<<Bol, Lit(<<"o","p","t","i","o","n">>), Star(Sp), Lit(<<"d","e","b","t">>)>>),
     field |-> "option_debt"],
    \* 291: /^opsjonsgjeld/
    [re |-> Cat(<<Bol, Lit(<<"o","p","s","j","o","n","s","g","j","e","l","d">>)>>),
     field |-> "option_debt"],
    \* 293: /^adjustments?$/
    [re |-> Cat(<<Bol, Lit(<<"a","d","j","u","s","t","m","e","n","t">>), Opt(Lit(<<"s">>)), Eol>>),
     field |-> "adjustments"],
    \* 294: /^justeringer?$/
    [re |-> Cat(<<Bol, Lit(<<"j","u","s","t","e","r","i","n","g","e">>), Opt(Lit(<<"r">>)), Eol>>),
     field |-> "adjustments"],
    \* 296: /^ev$/
    [re |-> Cat(<<Bol, Lit(<<"e","v">>), Eol>>),
     field |-> "enterprise_value"],
    \* 297: /^enterprise\s+value/
    [re |-> Cat(<<Bol, Lit(<<"e","n","t","e","r","p","r","i","s","e">>), Plus(Sp), Lit(<<"v","a","l","u","e">>)>>),
     field |-> "enterprise_value"],
    \* 298: /^selskapsverdi$/
    [re |-> Cat(<<Bol, Lit(<<"s","e","l","s","k","a","p","s","v","e","r","d","i">>), Eol>>),
     field |-> "enterprise_value"],
    \* 299: /^virksomhetsverdi$/
    [re |-> Cat(<<Bol, Lit(<<"v","i","r","k","s","o","m","h","e","t","s","v","e","r","d","i">>), Eol>>),
     field |-> "enterprise_value"],
    \* 301: /^eqv$/
    [re |-> Cat(<<Bol, Lit(<<"e","q","v">>), Eol>>),
     field |-> "equity_value"],
    \* 302: /^equity\s+value/
    [re |-> Cat(<<Bol, Lit(<<"e","q","u","i","t","y">>), Plus(Sp), Lit(<<"v","a","l","u","e">>)>>),
     field |-> "equity_value"],
    \* 303: /^egenkapitalverdi$/
    [re |-> Cat(<<Bol, Lit(<<"e","g","e","n","k","a","p","i","t","a","l","v","e","r","d","i">>), Eol>>),
     field |-> "equity_value"],
    \* 305: /^pref(erred)?(\s+eq(uity)?)?$/
    [re |-> Cat(<<Bol, Lit(<<"p","r","e","f">>), Opt(Lit(<<"e","r","r","e","d">>)), Opt(Cat(<<Plus(Sp), Lit(<<"e","q">>), Opt(Lit(<<"u","i","t","y">>))>>)), Eol>>),
     field |-> "preferred_equity"],
    \* 306: /^preferanse(aksjer)?$/
    [re |-> Cat(<<Bol, Lit(<<"p","r","e","f","e","r","a","n","s","e">>), Opt(Lit(<<"a","k","s","j","e","r">>)), Eol>>),
     field |-> "preferred_equity"],
    \* 308: /per\s+share.*before/
    [re |-> Cat(<<Lit(<<"p","e","r">>), Plus(Sp), Lit(<<"s","h","a","r","e">>), Star(AnyCh), Lit(<<"b","e","f","o","r","e">>)>>),
     field |-> "per_share_pre"],
    \* 309: /per\s+share.*pre/
    [re |-> Cat(<<Lit(<<"p","e","r">>), Plus(Sp), Lit(<<"s","h","a","r","e">>), Star(AnyCh), Lit(<<"p","r","e">>)>>),
     field |-> "per_share_pre"],
    \* 310: /per\s+aksje.*foer/
    [re |-> Cat(<<Lit(<<"p","e","r">>), Plus(Sp), Lit(<<"a","k","s","j","e">>), Star(AnyCh), Lit(<<"f","oe","r">>)>>),
     field |-> "per_share_pre"],
    \* 311: /^verdi\s*per\s*aksje\s*\(?(pre|foer)/
    [re |-> Cat(<<Bol, Lit(<<"v","e","r","d","i">>), Star(Sp), Lit(<<"p","e","r">>), Star(Sp), Lit(<<"a","k","s","j","e">>), Star(Sp), Opt(Lit(<<"(">>)), Alt(<<Lit(<<"p","r","e">>), Lit(<<"f","oe","r">>)>>)>>),
     field |-> "per_share_pre"],
    \* 313: /^mip$/
    [re |-> Cat(<<Bol, Lit(<<"m","i","p">>), Eol>>),
     field |-> "mip_amount"],
    \* 314: /^mip\s+share/
    [re |-> Cat(<<Bol, Lit(<<"m","i","p">>), Plus(Sp), Lit(<<"s","h","a","r","e">>)>>),
     field |-> "mip_amount"],
    \* 316: /^tso$/
    [re |-> Cat(<<Bol, Lit(<<"t","s","o">>), Eol>>),
     field |-> "tso_amount"],
    \* 317: /^tso\s+warrant/
    [re |-> Cat(<<Bol, Lit(<<"t","s","o">>), Plus(Sp), Lit(<<"w","a","r","r","a","n","t">>)>>),
     field |-> "tso_amount"],
    \* 319: /^ex(isting)?\s*warr(a|e)nts?/
    [re |-> Cat(<<Bol, Lit(<<"e","x">>), Opt(Lit(<<"i","s","t","i","n","g">>)), Star(Sp), Lit(<<"w","a","r","r">>), Alt(<<Lit(<<"a">>), Lit(<<"e">>)>>), Lit(<<"n","t">>), Opt(Lit(<<"s">>))>>),
     field |-> "warrants_amount"],
    \* 320: /^eksisterende\s*warrants?/
    [re |-> Cat(<<Bol, Lit(<<"e","k","s","i","s","t","e","r","e","n","d","e">>), Star(Sp), Lit(<<"w","a","r","r","a","n","t">>), Opt(Lit(<<"s">>))>>),
     field |-> "warrants_amount"],
    \* 322: /eqv.*post/
    [re |-> Cat(<<Lit(<<"e","q","v">>), Star(AnyCh), Lit(<<"p","o","s","t">>)>>),
     field |-> "eqv_post_dilution"],
    \* 323: /post\s*(mip|dilution)/
    [re |-> Cat(<<Lit(<<"p","o","s","t">>), Star(Sp), Alt(<<Lit(<<"m","i","p">>), Lit(<<"d","i","l","u","t","i","o","n">>)>>)>>),
     field |-> "eqv_post_dilution"],
    \* 324: /egenkapital.*etter\s*(utvanning)?/
    [re |-> Cat(<<Lit(<<"e","g","e","n","k","a","p","i","t","a","l">>), Star(AnyCh), Lit(<<"e","t","t","e","r">>), Star(Sp), Opt(Lit(<<"u","t","v","a","n","n","i","n","g">>))>>),
     field |-> "eqv_post_dilution"],
    \* 326: /per\s+share.*post/
    [re |-> Cat(<<Lit(<<"p","e","r">>), Plus(Sp), Lit(<<"s","h","a","r","e">>), Star(AnyCh), Lit(<<"p","o","s","t">>)>>),
     field |-> "per_share_post"],
    \* 327: /per\s+aksje.*etter/
    [re |-> Cat(<<Lit(<<"p","e","r">>), Plus(Sp), Lit(<<"a","k","s","j","e">>), Star(AnyCh), Lit(<<"e","t","t","e","r">>)>>),
     field |-> "per_share_post"],
    \* 328: /^verdi\s*per\s*aksje\s*\(?(post|etter)/
    [re |-> Cat(<<Bol, Lit(<<"v","e","r","d","i">>), Star(Sp), Lit(<<"p","e","r">>), Star(Sp), Lit(<<"a","k","s","j","e">>), Star(Sp), Opt(Lit(<<"(">>)), Alt(<<Lit(<<"p","o","s","t">>), Lit(<<"e","t","t","e","r">>)>>)>>),
     field |-> "per_share_post"]
>>

\* a ?? b for optional values
OrElse(a, b) == IF a # <<>> THEN a ELSE b

\* The field of the first rule among table[lo..hi] that matches l: <<field>>, or
\* <<>> when none does ("for (const [regex, field] of LABEL_MAPPINGS)"): the first
\* match of the lower half of the range, else the first match of the upper half
RECURSIVE FirstMatchFrom(_, _, _, _)
FirstMatchFrom(table, l, lo, hi) ==
    IF lo > hi THEN <<>>
    ELSE IF lo = hi
    THEN (IF Test(table[lo].re, l) THEN <<table[lo].field>> ELSE <<>>)
    ELSE OrElse(FirstMatchFrom(table, l, lo, (lo + hi) \div 2),
                FirstMatchFrom(table, l, (lo + hi) \div 2 + 1, hi))
FirstMatch(l) == FirstMatchFrom(LABEL_MAPPINGS, l, 1, Len(LABEL_MAPPINGS))

\* ParseContext; "none" stands for null
InitCtx == [lastSection |-> "none", lastField |-> "none"]

RxPctVekst  == Cat(<<Bol, Lit(<<"%">>), Star(Sp), Lit(<<"v","e","k","s","t">>), Eol>>)
RxPctGrowth == Cat(<<Bol, Lit(<<"%">>), Star(Sp), Lit(<<"g","r","o","w","t","h">>), Eol>>)
RxPctMargin == Cat(<<Bol, Lit(<<"%">>), Star(Sp), Lit(<<"m","a","r","g","i","n">>), Eol>>)

\* "Update context if provided"
UpdateCtx(ctx, field) ==
    [lastField |-> field,
     lastSection |->
        IF field \in RevenueFields THEN "revenue"
        ELSE IF field \in EbitdaFields THEN "ebitda"
        ELSE IF field \in CashflowFields THEN "cashflow"
        ELSE IF field \in EquityFields THEN "equity"
        ELSE ctx.lastSection]

\* The context-dependent labels with "% margin" always the blended EBITDA margin
FieldByContextBlended(l, ctx) ==
    IF Test(RxPctVekst, l) \/ Test(RxPctGrowth, l)
    THEN IF ctx.lastSection = "ebitda" THEN <<>> ELSE <<"revenue_growth">>
    ELSE IF Test(RxPctMargin, l) THEN <<"ebitda_margin">>
    ELSE <<>>

\* "Context-dependent labels": the field of a label no rule matches
FieldByContext(l, ctx) ==
    IF Test(RxPctVekst, l) \/ Test(RxPctGrowth, l)
    THEN IF ctx.lastSection = "ebitda" THEN <<>> ELSE <<"revenue_growth">>
    ELSE IF Test(RxPctMargin, l)
    THEN IF ctx.lastField \in {"ebitda_managed_services", "revenue_managed_services"}
         THEN <<"margin_managed_services">>
         ELSE IF ctx.lastField \in {"ebitda_professional_services",
                                    "revenue_professional_services"}
         THEN <<"margin_professional_services">>
         ELSE IF ctx.lastField = "ebitda_central_costs"
         THEN <<"margin_central_costs">>
         ELSE <<"ebitda_margin">>
    ELSE <<>>

MapMatched(l, ctx, hit) ==
    IF hit # <<>> THEN [field |-> hit, ctx |-> UpdateCtx(ctx, hit[1])]
    ELSE [field |-> FieldByContext(l, ctx), ctx |-> ctx]

MapNormalized(l, ctx) ==
    IF l = <<>> THEN [field |-> <<>>, ctx |-> ctx]
    ELSE MapMatched(l, ctx, FirstMatch(l))

\* mapLabelToField(label, ctx): [field |-> <<>> or <<f>>, ctx |-> the context after]
mapLabelToField(label, ctx) == MapNormalized(normalizeLabel(label), ctx)

\* ------------------------------------------------------------------------
\* Worksheets
\* ------------------------------------------------------------------------

rowCount(ws) == Len(ws.rows)

RECURSIVE MaxLen(_)
MaxLen(rows) == IF rows = <<>> THEN 0
                ELSE LET m == MaxLen(Tail(rows))
                     IN  IF Len(Head(rows)) > m THEN Len(Head(rows)) ELSE m
columnCount(ws) == MaxLen(ws.rows)

\* ws.getRow(r).getCell(c): a cell outside the stored ones has a null value
getCell(ws, r, c) ==
    IF r \in 1..Len(ws.rows) /\ c \in 1..Len(ws.rows[r]) THEN ws.rows[r][c] ELSE NullCell

Min(a, b) == IF a < b THEN a ELSE b

\* ------------------------------------------------------------------------
\* Year detection
\* ------------------------------------------------------------------------

YearMin == 2020
YearMax == 2040
YearScanCols == 30

InYearRange(v) == v >= YearMin * Scale /\ v <= YearMax * Scale

MinOf(set) == CHOOSE i \in set : \A k \in set : i <= k

\* v.match(/(?:FY)?(\d{4})/): the captured digits of the leftmost match, or <<>>
FourDigitsAmong(s, starts) ==
    IF starts = {} THEN <<>> ELSE SubSeq(s, MinOf(starts), MinOf(starts) + 3)
FirstFourDigits(s) == FourDigitsAmong(s, {i \in 1..Len(s) : Len(DigitRun(s, i)) >= 4})

\* parseInt(m[1]), kept when in range
YearOfDigits(d) ==
    IF d # <<>> /\ InYearRange(ParseInt(d)) THEN <<ParseInt(d)>> ELSE <<>>

\* The year a header cell's value resolves to (findYearHeader's loop body), or <<>>
YearOfValue(v) ==
    CASE v.t = "num"  -> IF InYearRange(v.n) THEN <<v.n>> ELSE <<>>
      [] v.t = "str"  -> YearOfDigits(FirstFourDigits(v.s))
      [] v.t = "date" -> IF InYearRange(v.n * Scale) THEN <<v.n * Scale>> ELSE <<>>
      [] OTHER -> <<>>
YearOfCell(cell) == YearOfValue(cellValue(cell))

CandidateAt(c, y) == IF y = <<>> THEN <<>> ELSE <<[col |-> c, year |-> y[1]]>>

\* candidates of row r in push order (c = 1..maxCol)
RECURSIVE Candidates(_, _, _, _)
Candidates(ws, r, c, maxCol) ==
    IF c > maxCol THEN <<>>
    ELSE CandidateAt(c, YearOfCell(getCell(ws, r, c))) \o Candidates(ws, r, c + 1, maxCol)

\* candidates.sort((a, b) => a.col - b.col): a stable insertion sort
RECURSIVE InsertByCol(_, _)
InsertByCol(sorted, x) ==
    IF sorted = <<>> THEN <<x>>
    ELSE IF sorted[Len(sorted)].col <= x.col THEN Append(sorted, x)
    ELSE Append(InsertByCol(SubSeq(sorted, 1, Len(sorted) - 1), x), sorted[Len(sorted)])
\* candidates.sort((a, b) => a.year - b.year)
RECURSIVE SortByYear(_)
RECURSIVE InsertByYear(_, _)
InsertByYear(sorted, x) ==
    IF sorted = <<>> THEN <<x>>
    ELSE IF sorted[Len(sorted)].year <= x.year THEN Append(sorted, x)
    ELSE Append(InsertByYear(SubSeq(sorted, 1, Len(sorted) - 1), x), sorted[Len(sorted)])
SortByYear(cands) ==
    IF cands = <<>> THEN <<>>
    ELSE InsertByYear(SortByYear(SubSeq(cands, 1, Len(cands) - 1)), cands[Len(cands)])
RECURSIVE SortByCol(_)
SortByCol(cands) ==
    IF cands = <<>> THEN <<>>
    ELSE InsertByCol(SortByCol(SubSeq(cands, 1, Len(cands) - 1)), cands[Len(cands)])

\* The filter without the "seen" set
UniqueYearsKeepAll(cands) == [i \in 1..Len(cands) |-> [c |-> cands[i], first |-> TRUE]]
\* candidates.filter(c => !seen.has(c.year) ...): the first of each year is kept
UniqueYears(cands) ==
    SelectSeq([i \in 1..Len(cands) |->
                  [c |-> cands[i],
                   first |-> \A j \in 1..(i - 1) : cands[j].year # cands[i].year]],
              LAMBDA e : e.first)

Uncounted(es) == [i \in 1..Len(es) |-> es[i].c]

\* "if (candidates.length >= minCols) { ... if (unique.length >= minCols) return"
AcceptHeader(n, unique, minCols) ==
    IF n >= minCols /\ Len(unique) >= minCols THEN unique ELSE <<>>

HeaderOfCandidates(candidates, minCols) ==
    AcceptHeader(Len(candidates), Uncounted(UniqueYears(SortByCol(candidates))), minCols)

\* The year columns row r yields under minCols, or <<>>
RowYearCols(ws, r, minCols) ==
    HeaderOfCandidates(Candidates(ws, r, 1, Min(YearScanCols, columnCount(ws))), minCols)

\* findYearHeader: <<>> or <<[headerRow, yearCols]>>
RECURSIVE findYearHeaderFrom(_, _, _, _)
HeaderOrNext(ws, r, endRow, minCols, yc) ==
    IF yc # <<>> THEN <<[headerRow |-> r, yearCols |-> yc]>>
    ELSE findYearHeaderFrom(ws, r + 1, endRow, minCols)
findYearHeaderFrom(ws, r, endRow, minCols) ==
    IF r > Min(endRow, rowCount(ws)) THEN <<>>
    ELSE HeaderOrNext(ws, r, endRow, minCols, RowYearCols(ws, r, minCols))
findYearHeader(ws, startRow, endRow, minCols) ==
    findYearHeaderFrom(ws, startRow, endRow, minCols)

\* ------------------------------------------------------------------------
\* Label column detection
\* ------------------------------------------------------------------------

LabelScanCols == 10
DefaultLabelCol == 2

knownLabels == Alt(<<Lit(<<"r","e","v","e","n","u","e">>), Lit(<<"o","m","s","e","t","n","i","n","g">>), Lit(<<"e","b","i","t","d","a">>), Lit(<<"d","r","i","f","t","s","i","n","n","t","e","k","t">>), Lit(<<"t","u","r","n","o","v","e","r">>), Lit(<<"i","n","n","t","e","k","t">>), Lit(<<"r","e","s","u","l","t","a","t">>), Lit(<<"n","i","b","d">>), Lit(<<"f","c","f">>), Lit(<<"c","a","p","e","x">>), Lit(<<"g","j","e","l","d">>), Lit(<<"a","k","s","j","e","r">>)>>)

\* "if (str && knownLabels.test(str))"
IsKnownLabelText(str) == str # <<>> /\ TestI(knownLabels, str)

\* The <<row, column>> pairs the scan scores
LabelHits(ws, startRow, maxRow, maxCol) ==
    {rc \in (startRow..maxRow) \X (1..maxCol) :
        IsKnownLabelText(cellStr(getCell(ws, rc[1], rc[2])))}

ColScore(hits, c) == Cardinality({rc \in hits : rc[2] = c})
FirstHitRow(hits, c) == MinOf({rc[1] : rc \in {h \in hits : h[2] = c}})
\* the Map iterates in insertion order: by the first row that scored, then by column
InsertedBefore(hits, c, d) ==
    \/ FirstHitRow(hits, c) < FirstHitRow(hits, d)
    \/ FirstHitRow(hits, c) = FirstHitRow(hits, d) /\ c < d
BeatsCol(hits, c, d) ==
    \/ ColScore(hits, c) > ColScore(hits, d)
    \/ ColScore(hits, c) = ColScore(hits, d) /\ InsertedBefore(hits, c, d)
BestAmong(hits, scored) ==
    CHOOSE c \in scored : \A d \in scored \ {c} : BeatsCol(hits, c, d)
BestLabelCol(hits) ==
    IF hits = {} THEN DefaultLabelCol ELSE BestAmong(hits, {rc[2] : rc \in hits})

findLabelColumn(ws, startRow, endRow) ==
    BestLabelCol(LabelHits(ws, startRow, Min(endRow, rowCount(ws)),
                           Min(LabelScanCols, columnCount(ws))))

\* ------------------------------------------------------------------------
\* Model block detection
\* ------------------------------------------------------------------------

NameScanCols == 10
ContentScanCols == 15
GapRows == 3

RxName == Cat(<<Bol, Lit(<<"n","a","m","e",":">>), Star(Sp)>>)

\* label.replace(/^name:\s*/i, "").trim(), for a label the pattern matches
NameOfMarker(label) == Trim(TrimLeft(SubSeq(label, 6, Len(label))))

\* The first column c <= maxCol of row r whose text matches /^name:\s*/i; 0 when none
FirstOrZero(cols) == IF cols = {} THEN 0 ELSE MinOf(cols)
MarkerCol(ws, r, maxCol) ==
    FirstOrZero({c \in 1..maxCol : TestI(RxName, cellStr(getCell(ws, r, c)))})

RawBlock(name, ws, startRow) ==
    [name |-> name, sheetName |-> ws.name, startRow |-> startRow,
     endRow |-> rowCount(ws) + 1]

NamedBlock(ws, r, name) == IF name # <<>> THEN <<RawBlock(name, ws, r)>> ELSE <<>>
MarkerBlock(ws, r, c) ==
    IF c = 0 THEN <<>> ELSE NamedBlock(ws, r, NameOfMarker(cellStr(getCell(ws, r, c))))

\* The blocks of the rows from r on, before the end rows are adjusted
RECURSIVE NameMarkers(_, _)
NameMarkers(ws, r) ==
    IF r > rowCount(ws) THEN <<>>
    ELSE MarkerBlock(ws, r, MarkerCol(ws, r, Min(NameScanCols, columnCount(ws))))
           \o NameMarkers(ws, r + 1)

\* "Adjust end rows"
AdjustEndRows(blocks) ==
    [i \in 1..Len(blocks) |->
        IF i < Len(blocks)
        THEN [blocks[i] EXCEPT !.endRow = blocks[i + 1].startRow]
        ELSE blocks[i]]

\* Strategy 1. findNameBlocks: a sequence of [name, sheetName, startRow, endRow]
findNameBlocks(ws) == AdjustEndRows(NameMarkers(ws, 1))

sectionPattern == Cat(<<Bol, Alt(<<Lit(<<"s","c","e","n","a","r","i","o">>), Lit(<<"c","a","s","e">>), Lit(<<"m","o","d","e","l","l">>), Lit(<<"p","l","a","n">>), Lit(<<"b","u","d","g","e","t">>), Lit(<<"f","o","r","e","c","a","s","t">>), Lit(<<"p","r","o","g","n","o","s","e">>), Lit(<<"a","l","t","e","r","n","a","t","i","v">>)>>), Wb>>)
knownFinancialLabel == Alt(<<Lit(<<"r","e","v","e","n","u","e">>), Lit(<<"o","m","s","e","t","n","i","n","g">>), Lit(<<"e","b","i","t","d","a">>), Lit(<<"n","i","b","d">>), Lit(<<"c","a","p","e","x">>), Lit(<<"a","k","s","j","e","r">>), Lit(<<"s","h","a","r","e">>), Lit(<<"v","e","k","s","t">>), Lit(<<"g","r","o","w","t","h">>), Lit(<<"m","a","r","g","i","n">>), Lit(<<"f","c","f">>), Lit(<<"g","j","e","l","d">>), Lit(<<"d","e","b","t">>), Cat(<<Lit(<<"a","d","j","u","s","t","m","e","n","t">>), Opt(Lit(<<"s">>))>>), Lit(<<"j","u","s","t","e","r","i","n","g","e","r">>), Lit(<<"p","r","e","f">>), Lit(<<"m","i","p">>), Lit(<<"t","s","o">>), Lit(<<"w","a","r","r","a","n","t">>), Lit(<<"t","u","r","n","o","v","e","r">>), Lit(<<"d","r","i","f","t","s","i","n","n","t">>)>>)

SetLastEndRow(blocks, e) ==
    IF blocks = <<>> THEN blocks
    ELSE [blocks EXCEPT ![Len(blocks)] = [@ EXCEPT !.endRow = e]]

\* "Check if row has any content at all"
RowHasContent(ws, r) ==
    \E c \in 1..Min(ContentScanCols, columnCount(ws)) : cellStr(getCell(ws, r, c)) # <<>>

\* "If we had a gap of 3+ empty rows": the blocks after the gap check of row r
CloseAtGap(r, gapStart, lastNonEmptyRow, blocks) ==
    IF gapStart > 0 /\ r - gapStart >= GapRows /\ lastNonEmptyRow > 0
    THEN SetLastEndRow(blocks, gapStart) ELSE blocks

\* "Check for section header": the blocks after row r, whose label is label
OpenSection(ws, r, label, blocks) ==
    IF label # <<>> /\ TestI(sectionPattern, label) /\ ~TestI(knownFinancialLabel, label)
    THEN Append(SetLastEndRow(blocks, r), RawBlock(label, ws, r))
    ELSE blocks

\* Strategy 2. findSectionBlocks: the loop over the rows, from row r on, with the
\* loop's variables
RECURSIVE SectionScan(_, _, _, _, _, _)
SectionScan(ws, labelCol, r, gapStart, lastNonEmptyRow, blocks) ==
    IF r > rowCount(ws) THEN blocks
    ELSE IF ~RowHasContent(ws, r)
    THEN SectionScan(ws, labelCol, r + 1, IF gapStart < 0 THEN r ELSE gapStart,
                     lastNonEmptyRow, blocks)
    ELSE SectionScan(ws, labelCol, r + 1, -1, r,
                     OpenSection(ws, r, cellStr(getCell(ws, r, labelCol)),
                                 CloseAtGap(r, gapStart, lastNonEmptyRow, blocks)))

findSectionBlocks(ws) ==
    SectionScan(ws, findLabelColumn(ws, 1, rowCount(ws)), 1, -1, 0, <<>>)

\* ------------------------------------------------------------------------
\* Block parsing
\* ------------------------------------------------------------------------

\* A warning string is kept as its template (kind) and the values it interpolates:
\*   "no_years"    Blokk "<name>" (ark "<sheet>", rad <from>-<to>): Ingen aarstall funnet ...
\*   "no_data"     Blokk "<name>" (ark "<sheet>"): Ingen gjenkjente finansielle data ...
\*   "all_empty"   Blokk "<name>" (ark "<sheet>"): Alle perioder er tomme. Hopper over.
\*   "unmapped"    Blokk "<name>": <n> ukjente rader: <rows joined by ", ">
\*   "sheets"      Fant <from> ark: <rows joined by ", ">
\*   "empty_sheet" Ark "<sheet>" er tomt. Hopper over.
Warning(kind, name, sheet, from, to, rows) ==
    [kind |-> kind, name |-> name, sheet |-> sheet, from |-> from, to |-> to,
     rows |-> rows]

createEmptyPeriod(year, currentYear) ==
    [year |-> year,
     period_date |-> NumToStr(year) \o <<"-","1","2","-","3","1">>,
     period_label |-> NumToStr(year),
     period_type |-> IF year < currentYear * Scale THEN "actual"
                     ELSE IF year = currentYear * Scale THEN "budget" ELSE "forecast",
     f |-> [k \in FieldKeys |-> <<>>]]

\* "Try column A and column labelCol+1": the first of the columns 1, labelCol - 1,
\* labelCol + 1 that is a column other than labelCol with a text of more than one
\* character; <<>> when there is none
AltLabel(ws, r, labelCol, tryCols, hits) ==
    IF hits = {} THEN <<>> ELSE cellStr(getCell(ws, r, tryCols[MinOf(hits)]))
AltLabelAmong(ws, r, labelCol, tryCols) ==
    AltLabel(ws, r, labelCol, tryCols,
             {i \in 1..Len(tryCols) :
                 /\ tryCols[i] >= 1
                 /\ tryCols[i] # labelCol
                 /\ Len(cellStr(getCell(ws, r, tryCols[i]))) > 1})
LabelOrAlt(ws, r, labelCol, primary) ==
    IF primary # <<>> THEN primary
    ELSE AltLabelAmong(ws, r, labelCol, <<1, labelCol - 1, labelCol + 1>>)
\* The label of row r
RawLabel(ws, r, labelCol) == LabelOrAlt(ws, r, labelCol, cellStr(getCell(ws, r, labelCol)))

SkipWords == { <<"i","n","p","u","t">>, <<"i","n","n","d","a","t","a">>,
               <<"c","o","n","s","o","l","i","d","a","t","e","d"," ","p","&","l">>,
               <<"k","o","n","s","o","l","i","d","e","r","t"," ","r","e","s","u","l","t","a","t">>,
               <<"c","o","m","m","e","n","t">>, <<"k","o","m","m","e","n","t","a","r">> }
RxSkip == Cat(<<Bol, Alt(<<Lit(<<"p","&","l">>), Cat(<<Lit(<<"r","e","s","u","l","t","a","t">>), Opt(Lit(<<"r","e","g","n","s","k","a","p">>))>>), Lit(<<"b","a","l","a","n","s","e">>), Lit(<<"b","a","l","a","n","c","e">>), Lit(<<"s","u","m","m","a","r","y">>), Lit(<<"s","a","m","m","e","n","d","r","a","g">>), Cat(<<Lit(<<"n","o","t","e">>), Opt(Lit(<<"s">>))>>), Cat(<<Lit(<<"n","o","t","e">>), Opt(Lit(<<"r">>))>>)>>), Eol>>)

IsSkipLower(lower) ==
    \/ StartsWith(lower, <<"n","a","m","e",":">>)
    \/ lower \in SkipWords
    \/ TestI(RxSkip, lower)
\* "Skip known non-data rows"
IsSkipLabel(rawLabel) == IsSkipLower(ToLower(rawLabel))

\* The fields hasAnyData looks at
KeyFields == { "revenue_total", "ebitda_total", "enterprise_value", "equity_value",
               "nibd", "share_count" }

\* The check with every field counted
hasAnyDataInAnyField(periods) ==
    \E i \in 1..Len(periods) : \E k \in FieldKeys : periods[i].f[k] # <<>>
hasAnyData(periods) ==
    \E i \in 1..Len(periods) : \E k \in KeyFields : periods[i].f[k] # <<>>

PeriodNonEmpty(p) == \E k \in FieldKeys : p.f[k] # <<>>

\* The periods without the filter
nonEmptyPeriodsKeepAll(periods) == periods
\* periods.filter(p => some field of p is not null)
nonEmptyPeriods(periods) == SelectSeq(periods, PeriodNonEmpty)

\* "if (val !== null) periods[pi][field] = val"
SetField(period, field, val) ==
    IF val # <<>> THEN [period EXCEPT !.f[field] = val] ELSE period

\* "Populate period values": the row's numeric cells written to field, period by period
PopulateRow(ws, r, yearCols, field, periods) ==
    [pi \in 1..Len(periods) |->
        SetField(periods[pi], field, cellNum(getCell(ws, r, yearCols[pi].col)))]

\* The year columns in which row r has a number
NumericCols(ws, r, yearCols) ==
    {i \in 1..Len(yearCols) : cellNum(getCell(ws, r, yearCols[i].col)) # <<>>}

\* The loop's state st is: periods, unmappedRows, ctx, and the record of what
\* happened to each row (rowLog: what the row was taken for and the context it was
\* read in; writes: the <<row, period index, field>> assignments made).
Noted(st, r, what, rawLabel, numeric) ==
    [st EXCEPT !.rowLog = Append(@, [row |-> r, what |-> what, label |-> rawLabel,
                                     hasData |-> numeric # {}, ctx |-> st.ctx])]

\* "if (!field) continue" without the unmappedRows.push
PushUnmappedNever(unmappedRows, rawLabel, hasData) == unmappedRows
\* "if (!field) { if (hasData && rawLabel.length > 1) unmappedRows.push(rawLabel) }"
PushUnmapped(unmappedRows, rawLabel, hasData) ==
    IF hasData /\ Len(rawLabel) > 1 THEN Append(unmappedRows, rawLabel) ELSE unmappedRows

ScanMapped(ws, r, yearCols, st, rawLabel, numeric, mapped) ==
    IF mapped.field = <<>> THEN
        [Noted(st, r, "unmapped", rawLabel, numeric) EXCEPT
            !.ctx = mapped.ctx,
            !.unmappedRows = PushUnmapped(@, rawLabel, numeric # {})]
    ELSE
        [Noted(st, r, "mapped", rawLabel, numeric) EXCEPT
            !.ctx = mapped.ctx,
            !.periods = PopulateRow(ws, r, yearCols, mapped.field[1], @),
            !.writes = @ \cup {<<r, pi, mapped.field[1]>> : pi \in numeric}]

ScanLabelled(ws, r, yearInfo, st, rawLabel, numeric) ==
    IF r = yearInfo.headerRow THEN Noted(st, r, "header", rawLabel, numeric)
    ELSE IF rawLabel = <<>> THEN Noted(st, r, "nolabel", rawLabel, numeric)
    ELSE IF IsSkipLabel(rawLabel) THEN Noted(st, r, "skipped", rawLabel, numeric)
    ELSE ScanMapped(ws, r, yearInfo.yearCols, st, rawLabel, numeric,
                    mapLabelToField(rawLabel, st.ctx))

\* The body of the data-row loop for row r
ScanRow(ws, r, labelCol, yearInfo, st) ==
    ScanLabelled(ws, r, yearInfo, st, RawLabel(ws, r, labelCol),
                 NumericCols(ws, r, yearInfo.yearCols))

RECURSIVE ScanRows(_, _, _, _, _, _)
ScanRows(ws, r, endRow, labelCol, yearInfo, st) ==
    IF r >= endRow THEN st
    ELSE ScanRows(ws, r + 1, endRow, labelCol, yearInfo,
                  ScanRow(ws, r, labelCol, yearInfo, st))

InitScan(yearCols, currentYear) ==
    [periods |-> [i \in 1..Len(yearCols) |->
                     createEmptyPeriod(yearCols[i].year, currentYear)],
     unmappedRows |-> <<>>,
     ctx |-> InitCtx,
     rowLog |-> <<>>,
     writes |-> {}]

\* The record of one parseBlock run: the block, the header row (0: none), the
\* periods before the empty ones are filtered out, ScanRow's rowLog and writes
BlockLog(name, startRow, endRow, labelCol, headerRow, yearCols, st) ==
    [name |-> name, startRow |-> startRow, endRow |-> endRow, labelCol |-> labelCol,
     headerRow |-> headerRow, yearCols |-> yearCols, rawPeriods |-> st.periods,
     rowLog |-> st.rowLog, writes |-> st.writes]

UnmappedWarning(name, unmappedRows) ==
    IF unmappedRows # <<>>
    THEN <<Warning("unmapped", name, <<>>, 0, 0, unmappedRows)>> ELSE <<>>

\* parseBlockWithYears, from "Check that we got at least some data" on
BlockResult(ws, startRow, endRow, name, st, kept, log) ==
    IF ~hasAnyData(st.periods) THEN
        [model |-> <<>>,
         warnings |-> <<Warning("no_data", name, ws.name, 0, 0, <<>>)>>,
         log |-> log]
    ELSE IF kept = <<>> THEN
        [model |-> <<>>,
         warnings |-> <<Warning("all_empty", name, ws.name, 0, 0, <<>>)>>,
         log |-> log]
    ELSE
        [model |-> <<[name |-> name,
                      periods |-> kept,
                      unmappedRows |-> st.unmappedRows,
                      source |-> [sheet |-> ws.name, from |-> startRow,
                                  to |-> Min(endRow, rowCount(ws))]]>>,
         warnings |-> UnmappedWarning(name, st.unmappedRows),
         log |-> log]

ScannedBlock(ws, startRow, endRow, name, labelCol, yearInfo, st) ==
    BlockResult(ws, startRow, endRow, name, st, nonEmptyPeriods(st.periods),
                BlockLog(name, startRow, endRow, labelCol, yearInfo.headerRow,
                         yearInfo.yearCols, st))

\* parseBlockWithYears: [model |-> <<>> or <<ParsedModelBlock>>, warnings, log]
parseBlockWithYears(ws, startRow, endRow, name, labelCol, yearInfo, currentYear) ==
    ScannedBlock(ws, startRow, endRow, name, labelCol, yearInfo,
                 ScanRows(ws, startRow, endRow, labelCol, yearInfo,
                          InitScan(yearInfo.yearCols, currentYear)))

StrictMinCols == 2
RelaxedMinCols == 1

\* "if (!yearInfo) { const relaxed = findYearHeader(..., 1) ..."
StrictOrRelaxed(ws, startRow, effectiveEnd, strict) ==
    IF strict # <<>> THEN strict
    ELSE findYearHeader(ws, startRow, effectiveEnd, RelaxedMinCols)

\* "return { model: null, warnings }" without the warnings.push before it
NoYearsSilent(ws, startRow, effectiveEnd, fallbackName, labelCol) ==
    [model |-> <<>>,
     warnings |-> <<>>,
     log |-> BlockLog(fallbackName, startRow, effectiveEnd, labelCol, 0, <<>>,
                      InitScan(<<>>, 0))]
NoYears(ws, startRow, effectiveEnd, fallbackName, labelCol) ==
    [model |-> <<>>,
     warnings |-> <<Warning("no_years", fallbackName, ws.name, startRow, effectiveEnd,
                            <<>>)>>,
     log |-> BlockLog(fallbackName, startRow, effectiveEnd, labelCol, 0, <<>>,
                      InitScan(<<>>, 0))]

ParseWithHeader(ws, startRow, effectiveEnd, fallbackName, labelCol, yearInfo, cy) ==
    IF yearInfo = <<>>
    THEN NoYears(ws, startRow, effectiveEnd, fallbackName, labelCol)
    ELSE parseBlockWithYears(ws, startRow, effectiveEnd, fallbackName, labelCol,
                             yearInfo[1], cy)

ParseRange(ws, startRow, effectiveEnd, fallbackName, cy) ==
    ParseWithHeader(ws, startRow, effectiveEnd, fallbackName,
                    findLabelColumn(ws, startRow, effectiveEnd),
                    StrictOrRelaxed(ws, startRow, effectiveEnd,
                        findYearHeader(ws, startRow, effectiveEnd, StrictMinCols)),
                    cy)

\* parseBlock
parseBlock(ws, startRow, endRow, fallbackName, currentYear) ==
    ParseRange(ws, startRow, Min(endRow, rowCount(ws) + 1), fallbackName, currentYear)

\* ------------------------------------------------------------------------
\* Input parameters
\* ------------------------------------------------------------------------

ParamKeys == { "shares_completion", "shares_year_end", "tso_warrants_count",
               "tso_warrants_price", "mip_share_pct", "existing_warrants_count",
               "existing_warrants_price", "acquired_companies_multiple",
               "acquired_with_shares_pct", "ev_multiple", "pref_growth_rate" }

\* An InputParameters object: the keys it has, and their values (<<>>: undefined)
EmptyParams == [has |-> {}, val |-> [k \in ParamKeys |-> <<>>]]
SetParam(ps, k, v) == [has |-> ps.has \cup {k}, val |-> [ps.val EXCEPT ![k] = v]]
\* Object.keys(params).length
KeyCount(ps) == Cardinality(ps.has)

\* "params.k1 = v1 ?? undefined; if (v2 !== null) params.k2 = v2"
SetPair(ps, k1, k2, v1, v2) ==
    IF v2 # <<>> THEN SetParam(SetParam(ps, k1, v1), k2, v2) ELSE SetParam(ps, k1, v1)
\* "if (v2 !== null) params.k = v2; else if (v1 !== null) params.k = v1"
SetEither(ps, k, v1, v2) ==
    IF v2 # <<>> THEN SetParam(ps, k, v2)
    ELSE IF v1 # <<>> THEN SetParam(ps, k, v1) ELSE ps

ParamOfLabel(ps, label, v1, v2) ==
    IF Includes(label, <<"n","u","m","b","e","r"," ","o","f"," ","o","r","d"," ","s","h","a","r","e","s"," ","c","o","m","p","l","e","t","i","o","n">>)
         \/ Includes(label, <<"a","n","t","a","l","l"," ","o","r","d","i","n","ae","r","e"," ","a","k","s","j","e","r"," ","v","e","d"," ","c","l","o","s","i","n","g">>)
    THEN SetParam(ps, "shares_completion", v1)
    ELSE IF Includes(label, <<"n","u","m","b","e","r"," ","o","f"," ","o","r","d"," ","s","h","a","r","e","s">>)
         \/ Includes(label, <<"n","u","m","b","e","r"," ","o","f"," "," ","o","r","d"," ","s","h","a","r","e","s">>)
         \/ Includes(label, <<"a","n","t","a","l","l"," ","o","r","d","i","n","ae","r","e"," ","a","k","s","j","e","r">>)
    THEN SetParam(ps, "shares_year_end", v1)
    ELSE IF (Includes(label, <<"t","s","o"," ","w","a","r","r","a","n","t","s">>) \/ Includes(label, <<"t","s","o","-","w","a","r","r","a","n","t","e","r">>))
         /\ ~Includes(label, <<"s","h","a","r","e">>)
    THEN SetPair(ps, "tso_warrants_count", "tso_warrants_price", v1, v2)
    ELSE IF Includes(label, <<"m","i","p"," ","s","h","a","r","e">>) \/ Includes(label, <<"m","i","p"," ","a","n","d","e","l">>)
         \/ Includes(label, <<"m","i","p","-","a","n","d","e","l">>)
    THEN SetParam(ps, "mip_share_pct", v1)
    ELSE IF Includes(label, <<"e","x","i","s","t","i","n","g"," ","w","a","r","r","a","n","t","s"," ","s","h","a","r","e">>)
         \/ Includes(label, <<"e","k","s","i","s","t","e","r","e","n","d","e"," ","w","a","r","r","a","n","t","e","r">>)
    THEN SetPair(ps, "existing_warrants_count", "existing_warrants_price", v1, v2)
    ELSE IF Includes(label, <<"a","c","q","u","i","r","e","d"," ","c","o","m","p","a","n","i","e","s"," ","m","u","l","t","i","p","l","e">>)
         \/ Includes(label, <<"o","p","p","k","j","oe","p","s","m","u","l","t","i","p","p","e","l">>)
    THEN SetEither(ps, "acquired_companies_multiple", v1, v2)
    ELSE IF Includes(label, <<"a","c","q","u","i","r","e","d"," ","w","i","t","h"," ","s","h","a","r","e","s">>)
         \/ Includes(label, <<"o","p","p","k","j","oe","p"," ","m","e","d"," ","a","k","s","j","e","r">>)
    THEN SetEither(ps, "acquired_with_shares_pct", v1, v2)
    ELSE ps

\* The body of parseInputParameters' loop for row r
ParamRow(ws, r, labelCol, ps) ==
    ParamOfLabel(ps, normalizeLabel(cellStr(getCell(ws, r, labelCol))),
                 cellNum(getCell(ws, r, labelCol + 1)),
                 cellNum(getCell(ws, r, labelCol + 2)))

RECURSIVE ParamRows(_, _, _, _, _)
ParamRows(ws, r, endRow, labelCol, ps) ==
    IF r >= endRow THEN ps
    ELSE ParamRows(ws, r + 1, endRow, labelCol, ParamRow(ws, r, labelCol, ps))

parseInputParameters(ws, endRow, labelCol) ==
    ParamRows(ws, 1, endRow, labelCol, EmptyParams)

EvMultipleMax == 100

\* "if (label === "ev" && params.ev_multiple === undefined) { ... m < 100 ..."
EnrichEv(ps, label, m) ==
    IF /\ label = <<"e","v">>
       /\ ps.val["ev_multiple"] = <<>>
       /\ m # <<>> /\ m[1] > 0 /\ m[1] < EvMultipleMax * Scale
    THEN SetParam(ps, "ev_multiple", m) ELSE ps
\* "if (label.startsWith("pref") && params.pref_growth_rate === undefined) { ... m < 1"
EnrichPref(ps, label, m) ==
    IF /\ StartsWith(label, <<"p","r","e","f">>)
       /\ ps.val["pref_growth_rate"] = <<>>
       /\ m # <<>> /\ m[1] > 0 /\ m[1] < Scale
    THEN SetParam(ps, "pref_growth_rate", m) ELSE ps
EnrichOfLabel(ps, label, m) == EnrichPref(EnrichEv(ps, label, m), label, m)

\* The body of enrichInputParameters' loop for row r
EnrichRow(ws, r, labelCol, ps) ==
    EnrichOfLabel(ps, normalizeLabel(cellStr(getCell(ws, r, labelCol))),
                  cellNum(getCell(ws, r, labelCol + 1)))

RECURSIVE EnrichRows(_, _, _, _, _)
EnrichRows(ws, r, endRow, labelCol, ps) ==
    IF r > Min(endRow, rowCount(ws)) THEN ps
    ELSE EnrichRows(ws, r + 1, endRow, labelCol, EnrichRow(ws, r, labelCol, ps))

enrichInputParameters(ws, params, startRow, endRow, labelCol) ==
    EnrichRows(ws, startRow, endRow, labelCol, params)

\* ------------------------------------------------------------------------
\* parseExcelBuffer
\* ------------------------------------------------------------------------

VARIABLES
    workbook,         \* the decoded workbook: its worksheets, in order
    filename,         \* the optional display name: <<>> or <<string>>
    currentYear,      \* new Date().getFullYear()
    pc,               \* "load", "sheets", "returned", "thrown"
    sheetIdx,         \* the index of the sheet the for loop is at
    allModels,        \* ParsedModelBlock[]
    warnings,         \* string[]
    inputParameters,  \* InputParameters
    error,            \* the Error thrown: "none", "no_sheets", "no_data"
    sheetLog,         \* per processed sheet: the strategies tried and the one used
    blockLog,         \* per parsed block: the log of parseBlock, its sheet, whether emitted
    previous          \* what the call before this one gave: <<>> or <<result>>

\* router.post("/excel/:companyId")
VARIABLES
    db,               \* the committed tables: financial_models, financial_periods
    tx,               \* the tables as the open transaction sees them: <<>> or <<tables>>
    ipc,              \* where the handler is: "idle", "model", "periods"
    parseResult,      \* the ExcelParseResult being stored
    mi,               \* the index of modelBlock in parseResult.models
    pj,               \* the index of p in modelBlock.periods
    modelId,          \* the id of the stored model of modelBlock
    summary,          \* models_created, models_updated, total_periods
    nextId,           \* the sequence behind financial_models.id
    uploads,          \* the requests handled so far
    response,         \* the status of the last response: 0 before the first
    before,           \* the committed tables when the last transaction began
    lastUpsert,       \* the last period statement: <<>> or <<[old, new, stored]>>
    sessions          \* the requests served at the same time, each on its own client

parserVars == <<workbook, filename, currentYear, pc, sheetIdx, allModels, warnings,
                inputParameters, error, sheetLog, blockLog>>
handlerVars == <<tx, ipc, parseResult, mi, pj, modelId, summary, uploads, response,
                 before, lastUpsert>>
storeVars == <<db, nextId, handlerVars, sessions>>
vars == <<parserVars, previous, storeVars>>

\* filename.replace(/\.[^.]+$/, ""): the last dot, when a character follows it,
\* and what follows it are removed
CutAtLastDot(s, dots) ==
    IF dots # {} /\ Len(s) \notin dots
    THEN SubSeq(s, 1, (CHOOSE i \in dots : \A j \in dots : j <= i) - 1) ELSE s
StripExtension(s) == CutAtLastDot(s, {i \in 1..Len(s) : s[i] = "."})

\* .replace(/[-_]/g, " ")
DashesToSpaces(s) == [i \in 1..Len(s) |-> IF s[i] \in {"-", "_"} THEN " " ELSE s[i]]

sheetNames(wb) == [i \in 1..Len(wb) |-> wb[i].name]

sheetModelName(wb, ws, fname) ==
    IF Len(wb) > 1 THEN ws.name
    ELSE IF fname # <<>> /\ fname[1] # <<>>
    THEN Trim(DashesToSpaces(StripExtension(fname[1])))
    ELSE ws.name

\* One parsed block: its model if any, its warnings, and the record of the run
Parsed(res, strategy, si) ==
    [models |-> res.model, warnings |-> res.warnings,
     logs |-> <<[sheet |-> si, strategy |-> strategy, emitted |-> res.model # <<>>,
                 log |-> res.log]>>]

Both(first, rest) ==
    [models |-> first.models \o rest.models,
     warnings |-> first.warnings \o rest.warnings,
     logs |-> first.logs \o rest.logs]

\* The loop over the blocks with a "break" at the first block that yields no model
RECURSIVE ParseBlocksStopAtDrop(_, _, _, _, _)
StopAtDrop(first, ws, blocks, strategy, si, cy) ==
    IF first.models = <<>> THEN first
    ELSE Both(first, ParseBlocksStopAtDrop(ws, Tail(blocks), strategy, si, cy))
ParseBlocksStopAtDrop(ws, blocks, strategy, si, cy) ==
    IF blocks = <<>> THEN [models |-> <<>>, warnings |-> <<>>, logs |-> <<>>]
    ELSE StopAtDrop(Parsed(parseBlock(ws, blocks[1].startRow, blocks[1].endRow,
                                      blocks[1].name, cy), strategy, si),
                    ws, blocks, strategy, si, cy)

\* "for (const block of blocks) { parseBlock ...; warnings.push(...); allModels.push }"
RECURSIVE ParseBlocks(_, _, _, _, _)
ParseBlocks(ws, blocks, strategy, si, cy) ==
    IF blocks = <<>> THEN [models |-> <<>>, warnings |-> <<>>, logs |-> <<>>]
    ELSE Both(Parsed(parseBlock(ws, blocks[1].startRow, blocks[1].endRow,
                                blocks[1].name, cy), strategy, si),
              ParseBlocks(ws, Tail(blocks), strategy, si, cy))

ThisSheet == workbook[sheetIdx]
AtSheet == pc = "sheets" /\ sheetIdx <= Len(workbook)
IsEmptySheet(ws) == rowCount(ws) = 0 \/ columnCount(ws) = 0

MinSectionBlocks == 2
ParamsDefaultEndRow == 20

\* "warnings.push(...result.warnings); if (result.model) allModels.push(result.model)"
Collect(res) ==
    /\ warnings' = warnings \o res.warnings
    /\ allModels' = allModels \o res.models
    /\ blockLog' = blockLog \o res.logs

\* The sheet is done with: the strategy used and those tried before it
NextSheet(strategy, attempted) ==
    /\ sheetLog' = Append(sheetLog, [sheet |-> sheetIdx, strategy |-> strategy,
                                     attempted |-> attempted])
    /\ sheetIdx' = sheetIdx + 1

\* "if (Object.keys(params).length > 0 && Object.keys(inputParameters).length === 0)"
AdoptParams(current, params) ==
    IF KeyCount(params) > 0 /\ KeyCount(current) = 0 THEN params ELSE current

\* parseInputParameters, the adoption of its result, enrichInputParameters
ReadParams(ws, paramsEndRow, enrichFrom, labelCol) ==
    inputParameters' =
        enrichInputParameters(ws,
            AdoptParams(inputParameters, parseInputParameters(ws, paramsEndRow, labelCol)),
            enrichFrom, rowCount(ws), labelCol)

\* Load with allModels and inputParameters kept from the call before
LoadKeeping ==
    /\ pc = "load"
    /\ Len(workbook) # 0
    /\ pc' = "sheets"
    /\ sheetIdx' = 1
    /\ warnings' = IF Len(workbook) > 1
                   THEN <<Warning("sheets", <<>>, <<>>, Len(workbook), 0,
                                  sheetNames(workbook))>>
                   ELSE <<>>
    /\ sheetLog' = <<>>
    /\ blockLog' = <<>>
    /\ UNCHANGED <<workbook, filename, currentYear, allModels, inputParameters, error,
                   previous, storeVars>>

\* workbook.xlsx.load succeeded and there is a sheet: "const warnings = [];
\* const allModels = []; let inputParameters = {}"
Load ==
    /\ pc = "load"
    /\ Len(workbook) # 0
    /\ pc' = "sheets"
    /\ sheetIdx' = 1
    /\ warnings' = IF Len(workbook) > 1
                   THEN <<Warning("sheets", <<>>, <<>>, Len(workbook), 0,
                                  sheetNames(workbook))>>
                   ELSE <<>>
    /\ allModels' = <<>>
    /\ inputParameters' = EmptyParams
    /\ sheetLog' = <<>>
    /\ blockLog' = <<>>
    /\ UNCHANGED <<workbook, filename, currentYear, error, previous, storeVars>>

\* "Filen inneholder ingen ark (sheets)."
LoadNoSheets ==
    /\ pc = "load"
    /\ Len(workbook) = 0
    /\ pc' = "thrown"
    /\ error' = "no_sheets"
    /\ UNCHANGED <<workbook, filename, currentYear, sheetIdx, allModels, warnings,
                   inputParameters, sheetLog, blockLog,
                   previous, storeVars>>

SkipEmptySheet ==
    /\ AtSheet
    /\ IsEmptySheet(ThisSheet)
    /\ warnings' = Append(warnings,
                          Warning("empty_sheet", <<>>, ThisSheet.name, 0, 0, <<>>))
    /\ NextSheet("none", {})
    /\ UNCHANGED <<workbook, filename, currentYear, pc, allModels, inputParameters,
                   error, blockLog,
                   previous, storeVars>>

\* "if (nameBlocks.length > 0)"
UseNameBlocks(nameBlocks) == Len(nameBlocks) > 0
\* "if (sectionBlocks.length > 0)"
UseSectionBlocksAny(sectionBlocks) == Len(sectionBlocks) > 0
\* "if (sectionBlocks.length > 1)"
UseSectionBlocks(sectionBlocks) == Len(sectionBlocks) >= MinSectionBlocks

NameBlocksStep(ws, nameBlocks) ==
    /\ ReadParams(ws, nameBlocks[1].startRow, nameBlocks[1].startRow,
                  findLabelColumn(ws, 1, nameBlocks[1].startRow))
    /\ Collect(ParseBlocks(ws, nameBlocks, "name", sheetIdx, currentYear))

\* Strategy 1: the sheet has "Name:" blocks
ParseNameBlocks ==
    /\ AtSheet
    /\ ~IsEmptySheet(ThisSheet)
    /\ UseNameBlocks(findNameBlocks(ThisSheet))
    /\ NameBlocksStep(ThisSheet, findNameBlocks(ThisSheet))
    /\ NextSheet("name", {"name"})
    /\ UNCHANGED <<workbook, filename, currentYear, pc, error,
                   previous, storeVars>>

\* Strategy 2: no "Name:" block, and more than one section block
ParseSectionBlocks ==
    /\ AtSheet
    /\ ~IsEmptySheet(ThisSheet)
    /\ ~UseNameBlocks(findNameBlocks(ThisSheet))
    /\ UseSectionBlocks(findSectionBlocks(ThisSheet))
    /\ Collect(ParseBlocks(ThisSheet, findSectionBlocks(ThisSheet), "section", sheetIdx,
                           currentYear))
    /\ NextSheet("section", {"name", "section"})
    /\ UNCHANGED <<workbook, filename, currentYear, pc, inputParameters, error,
                   previous, storeVars>>

\* "const paramsEndRow = yearInfo ? yearInfo.headerRow : Math.min(20, ws.rowCount)"
ParamsEndRow(ws, yearInfo) ==
    IF yearInfo # <<>> THEN yearInfo[1].headerRow ELSE Min(ParamsDefaultEndRow, rowCount(ws))

WholeSheetBlock(ws, name) == <<RawBlock(name, ws, 1)>>

\* Strategy 3: the whole sheet is one model
ParseWholeSheet ==
    /\ AtSheet
    /\ ~IsEmptySheet(ThisSheet)
    /\ ~UseNameBlocks(findNameBlocks(ThisSheet))
    /\ ~UseSectionBlocks(findSectionBlocks(ThisSheet))
    /\ ReadParams(ThisSheet,
                  ParamsEndRow(ThisSheet,
                               findYearHeader(ThisSheet, 1, rowCount(ThisSheet),
                                              StrictMinCols)),
                  1, findLabelColumn(ThisSheet, 1, rowCount(ThisSheet)))
    /\ Collect(ParseBlocks(ThisSheet,
                           WholeSheetBlock(ThisSheet,
                                           sheetModelName(workbook, ThisSheet, filename)),
                           "whole", sheetIdx, currentYear))
    /\ NextSheet("whole", {"name", "section", "whole"})
    /\ UNCHANGED <<workbook, filename, currentYear, pc, error,
                   previous, storeVars>>

\* "Kunne ikke finne finansielle data i filen."
ThrowNoData ==
    /\ pc = "sheets"
    /\ sheetIdx > Len(workbook)
    /\ Len(allModels) = 0
    /\ pc' = "thrown"
    /\ error' = "no_data"
    /\ UNCHANGED <<workbook, filename, currentYear, sheetIdx, allModels, warnings,
                   inputParameters, sheetLog, blockLog,
                   previous, storeVars>>

\* Return without the "allModels.length === 0" check before it
ReturnUnguarded ==
    /\ pc = "sheets"
    /\ sheetIdx > Len(workbook)
    /\ pc' = "returned"
    /\ UNCHANGED <<workbook, filename, currentYear, sheetIdx, allModels, warnings,
                   inputParameters, error, sheetLog, blockLog,
                   previous, storeVars>>

\* return { models: allModels, inputParameters, warnings }
Return ==
    /\ pc = "sheets"
    /\ sheetIdx > Len(workbook)
    /\ Len(allModels) # 0
    /\ pc' = "returned"
    /\ UNCHANGED <<workbook, filename, currentYear, sheetIdx, allModels, warnings,
                   inputParameters, error, sheetLog, blockLog,
                   previous, storeVars>>

\* What the call gave its caller: the result returned or the error thrown
Result ==
    [error |-> error,
     models |-> IF pc = "thrown" THEN <<>> ELSE allModels,
     inputParameters |-> IF pc = "thrown" THEN EmptyParams ELSE inputParameters,
     warnings |-> IF pc = "thrown" THEN <<>> ELSE warnings]

\* The years new Date().getFullYear() gives
CurrentYears == {2026, 2027}

\* The caller parses the same buffer with the same name once more, in the same
\* year or in a later one
ParseAgain ==
    /\ pc \in {"returned", "thrown"}
    /\ previous = <<>>
    /\ previous' = <<[result |-> Result, currentYear |-> currentYear]>>
    /\ currentYear' \in {y \in CurrentYears : y >= currentYear}
    /\ pc' = "load"
    /\ sheetIdx' = 0
    /\ error' = "none"
    /\ UNCHANGED <<workbook, filename, allModels, warnings, inputParameters, sheetLog,
                   blockLog, storeVars>>

Next ==
    \/ Load
    \/ LoadNoSheets
    \/ SkipEmptySheet
    \/ ParseNameBlocks
    \/ ParseSectionBlocks
    \/ ParseWholeSheet
    \/ ThrowNoData
    \/ Return

TwiceNext ==
    \/ Next
    \/ ParseAgain

\* ------------------------------------------------------------------------
\* The Excel import: router.post("/excel/:companyId")
\* ------------------------------------------------------------------------

\* The tables financial_models and financial_periods
EmptyTables == [models |-> {}, periods |-> {}]

\* The companies table, and the ids requests come with
Acme == "acme"
Companies == {Acme}
CompanyIds == {Acme, "nobody"}

\* A lookup that never finds a model
ExistingModelsNone(t, companyId, name) == {}
\* "SELECT id FROM financial_models WHERE company_id = $1 AND name = $2"
ExistingModels(t, companyId, name) ==
    {m \in t.models : m.company_id = companyId /\ m.name = name}

\* JSON.stringify(parseResult.inputParameters): the keys that have a value
JsonOf(ps) == ps.val

\* "Object.keys(parseResult.inputParameters).length > 0 ? JSON.stringify(...) : null"
ParametersOrNull(ps) == IF KeyCount(ps) > 0 THEN <<JsonOf(ps)>> ELSE <<>>

\* The update of an existing model with its periods deleted first
ModelReplaced(t, id, ps) ==
    [models |-> {IF m.id = id /\ KeyCount(ps) > 0
                 THEN [m EXCEPT !.model_parameters = <<JsonOf(ps)>>] ELSE m : m \in t.models},
     periods |-> {r \in t.periods : r.model_id # id}]

\* "if (Object.keys(parseResult.inputParameters).length > 0)
\*    UPDATE financial_models SET model_parameters = $1 ... WHERE id = $2"
ModelUpdated(t, id, ps) ==
    [t EXCEPT !.models =
        {IF m.id = id /\ KeyCount(ps) > 0
         THEN [m EXCEPT !.model_parameters = <<JsonOf(ps)>>] ELSE m : m \in t.models}]

\* "INSERT INTO financial_models (company_id, name, model_type, description,
\*  model_parameters) VALUES (...) RETURNING id"
ModelInserted(t, id, companyId, name, ps) ==
    [t EXCEPT !.models = @ \cup {[id |-> id, company_id |-> companyId, name |-> name,
                                  model_parameters |-> ParametersOrNull(ps)]}]

\* The value that always replaces the stored one
CoalesceNew(new, old) == new
\* COALESCE(EXCLUDED.x, financial_periods.x)
Coalesce(new, old) == IF new # <<>> THEN new ELSE old

\* The rows ON CONFLICT (model_id, period_date) finds
Conflicting(t, id, p) ==
    {r \in t.periods : r.model_id = id /\ r.period_date = p.period_date}

\* The row INSERT INTO financial_periods (...) VALUES (...) proposes
RowOf(id, p) ==
    [model_id |-> id, period_date |-> p.period_date, period_label |-> p.period_label,
     period_type |-> p.period_type, f |-> p.f]

\* "DO UPDATE SET period_label = EXCLUDED.period_label, period_type = ...,
\*  x = COALESCE(EXCLUDED.x, financial_periods.x), ..."
RowUpdated(old, p) ==
    [old EXCEPT !.period_label = p.period_label,
                !.period_type = p.period_type,
                !.f = [k \in FieldKeys |-> Coalesce(p.f[k], old.f[k])]]

UpsertInto(t, id, p, conflicting) ==
    IF conflicting = {} THEN [t EXCEPT !.periods = @ \cup {RowOf(id, p)}]
    ELSE [t EXCEPT !.periods = (@ \ conflicting) \cup {RowUpdated(r, p) : r \in conflicting}]
\* "INSERT INTO financial_periods ... ON CONFLICT (model_id, period_date) DO UPDATE"
UpsertPeriod(t, id, p) == UpsertInto(t, id, p, Conflicting(t, id, p))

\* period_date DATE NOT NULL: the text is a date (YYYY-MM-DD)
ValidDate(d) == Len(d) = Len(<<"Y","Y","Y","Y","-","M","M","-","D","D">>)

\* ROLLBACK with what the transaction wrote kept
RollbackKeeping(committed, seen) == seen
\* "await client.query("ROLLBACK")": what the transaction wrote is discarded
Rollback(committed, seen) == committed

NoSummary == [models_created |-> 0, models_updated |-> 0, total_periods |-> 0]
NoParseResult == [models |-> <<>>, inputParameters |-> EmptyParams, warnings |-> <<>>]

ModelBlock == parseResult.models[mi]

\* The handler's position after the statement at (m, j): the next period of the
\* block, or the next block
AfterModel(m) ==
    /\ ipc' = IF Len(parseResult.models[m].periods) > 0 THEN "periods" ELSE "model"
    /\ mi' = IF Len(parseResult.models[m].periods) > 0 THEN m ELSE m + 1
    /\ pj' = 1
CountPeriods(done) ==
    summary' = IF done THEN [summary EXCEPT !.total_periods = @ + Len(ModelBlock.periods)]
               ELSE summary
AfterPeriod(j) ==
    /\ ipc' = IF j < Len(ModelBlock.periods) THEN "periods" ELSE "model"
    /\ mi' = IF j < Len(ModelBlock.periods) THEN mi ELSE mi + 1
    /\ pj' = j + 1
    /\ CountPeriods(j >= Len(ModelBlock.periods))

MaxUploads == 2     \* requests handled in one behaviour

\* The early returns and the parser's error: 404 "Company not found", 400 "No file
\* uploaded", 400 "Invalid file type", 500 "Excel import failed"
RejectUpload ==
    /\ ipc = "idle"
    /\ uploads < MaxUploads
    /\ \E companyId \in CompanyIds :
          response' \in IF companyId \in Companies THEN {400, 500} ELSE {404}
    /\ uploads' = uploads + 1
    /\ before' = db
    /\ mi' = 0
    /\ pj' = 0
    /\ lastUpsert' = <<>>
    /\ UNCHANGED <<db, tx, ipc, parseResult, modelId, summary, nextId, parserVars,
                   previous, sessions>>

\* The request passed the checks and parseExcelBuffer returned result:
\* "const client = await pool.connect(); ... await client.query("BEGIN")"
BeginWith(result) ==
    /\ ipc = "idle"
    /\ uploads < MaxUploads
    /\ Len(result.models) > 0
    /\ parseResult' = result
    /\ tx' = <<db>>
    /\ ipc' = "model"
    /\ mi' = 1
    /\ pj' = 0
    /\ summary' = NoSummary
    /\ uploads' = uploads + 1
    /\ before' = db
    /\ lastUpsert' = <<>>
    /\ UNCHANGED <<db, modelId, nextId, response, parserVars, previous, sessions>>

\* "if (existing.rows.length > 0) { modelId = existing.rows[0].id; ... UPDATE ..."
StoreExistingModel ==
    /\ ipc = "model"
    /\ mi <= Len(parseResult.models)
    /\ ExistingModels(tx[1], Acme, ModelBlock.name) # {}
    /\ \E m \in ExistingModels(tx[1], Acme, ModelBlock.name) :
          /\ modelId' = m.id
          /\ tx' = <<ModelUpdated(tx[1], m.id, parseResult.inputParameters)>>
    /\ summary' = [summary EXCEPT !.models_updated = @ + 1]
    /\ AfterModel(mi)
    /\ UNCHANGED <<db, parseResult, nextId, uploads, response, before, lastUpsert,
                   parserVars, previous, sessions>>

\* "else { INSERT INTO financial_models ... RETURNING id; modelId = ...rows[0].id"
StoreNewModel ==
    /\ ipc = "model"
    /\ mi <= Len(parseResult.models)
    /\ ExistingModels(tx[1], Acme, ModelBlock.name) = {}
    /\ modelId' = nextId
    /\ nextId' = nextId + 1
    /\ tx' = <<ModelInserted(tx[1], nextId, Acme, ModelBlock.name,
                              parseResult.inputParameters)>>
    /\ summary' = [summary EXCEPT !.models_created = @ + 1]
    /\ AfterModel(mi)
    /\ UNCHANGED <<db, parseResult, uploads, response, before, lastUpsert, parserVars,
                   previous, sessions>>

\* "for (const p of modelBlock.periods) { await client.query(INSERT ... ON CONFLICT"
StorePeriod ==
    /\ ipc = "periods"
    /\ ValidDate(ModelBlock.periods[pj].period_date)
    /\ tx' = <<UpsertPeriod(tx[1], modelId, ModelBlock.periods[pj])>>
    /\ lastUpsert' = <<[old |-> Conflicting(tx[1], modelId, ModelBlock.periods[pj]),
                        new |-> ModelBlock.periods[pj],
                        model_id |-> modelId]>>
    /\ AfterPeriod(pj)
    /\ UNCHANGED <<db, parseResult, modelId, nextId, uploads, response, before,
                   parserVars, previous, sessions>>

\* "await client.query("COMMIT"); res.status(201).json(...)"
Commit ==
    /\ ipc = "model"
    /\ mi > Len(parseResult.models)
    /\ db' = tx[1]
    /\ tx' = <<>>
    /\ ipc' = "idle"
    /\ response' = 201
    /\ UNCHANGED <<parseResult, mi, pj, modelId, summary, nextId, uploads, before,
                   lastUpsert, parserVars, previous, sessions>>

\* A statement of the transaction fails: "catch (err) { await
\* client.query("ROLLBACK"); throw err }", then the outer catch answers 500
FailStatement ==
    /\ ipc \in {"model", "periods"}
    /\ db' = Rollback(db, tx[1])
    /\ tx' = <<>>
    /\ ipc' = "idle"
    /\ response' = 500
    /\ lastUpsert' = <<>>
    /\ UNCHANGED <<parseResult, mi, pj, modelId, summary, nextId, uploads, before,
                   parserVars, previous, sessions>>

\* ------------------------------------------------------------------------
\* Two requests at the same time. Each has its own client of the pool and its own
\* transaction, at PostgreSQL's default isolation level (read committed): a
\* statement sees what was committed before it began and what its own transaction
\* wrote; a write to a key another open transaction has written waits for that
\* transaction to end; the unique index of financial_models (company_id, name)
\* rejects an INSERT when a committed row has the key.
\* ------------------------------------------------------------------------

Sessions == {1, 2}
IdleSession ==
    [pc |-> "idle", result |-> NoParseResult, ops |-> <<>>, modelId |-> 0, pj |-> 0,
     response |-> 0, error |-> "none"]
NoSessions == [s \in Sessions |-> IdleSession]

\* The statements a transaction has executed, and what each does to the tables
InsertOp(id, name, ps) ==
    [kind |-> "insert", id |-> id, name |-> name, ps |-> ps, p |-> <<>>]
UpdateOp(id, ps) == [kind |-> "update", id |-> id, name |-> <<>>, ps |-> ps, p |-> <<>>]
UpsertOp(id, p) ==
    [kind |-> "upsert", id |-> id, name |-> <<>>, ps |-> EmptyParams, p |-> <<p>>]
ApplyOp(t, op) ==
    CASE op.kind = "insert" -> ModelInserted(t, op.id, Acme, op.name, op.ps)
      [] op.kind = "update" -> ModelUpdated(t, op.id, op.ps)
      [] OTHER -> UpsertPeriod(t, op.id, op.p[1])
RECURSIVE ApplyOps(_, _)
ApplyOps(t, ops) ==
    IF ops = <<>> THEN t ELSE ApplyOps(ApplyOp(t, Head(ops)), Tail(ops))
\* The tables as a statement of session s sees them
Visible(s) == ApplyOps(db, sessions[s].ops)

\* The key a statement writes: the (company, name) of an inserted model, the id of
\* an updated model, the (model, date) of a period
NameKey(name) == [kind |-> "name", id |-> 0, text |-> name]
ModelKey(id) == [kind |-> "model", id |-> id, text |-> <<>>]
PeriodKey(id, p) == [kind |-> "period", id |-> id, text |-> p.period_date]
KeyOf(op) ==
    CASE op.kind = "insert" -> NameKey(op.name)
      [] op.kind = "update" -> ModelKey(op.id)
      [] OTHER -> PeriodKey(op.id, op.p[1])
\* Another open transaction has written the key: the statement waits
MustWait(s, key) ==
    \E o \in Sessions \ {s} : \E i \in 1..Len(sessions[o].ops) :
        KeyOf(sessions[o].ops[i]) = key

RaceBlock(s) == sessions[s].result.models[1]
RaceUnchanged == UNCHANGED <<parserVars, previous, handlerVars>>

\* "const client = await pool.connect(); ... await client.query("BEGIN")"
RaceBeginWith(s, result) ==
    /\ sessions[s].pc = "idle"
    /\ Len(result.models) > 0
    /\ sessions' = [sessions EXCEPT ![s] = [IdleSession EXCEPT !.pc = "select",
                                                              !.result = result]]
    /\ UNCHANGED <<db, nextId>>
    /\ RaceUnchanged

\* The session after its SELECT returned the rows found
AfterSelect(s, found) ==
    IF found = {} THEN [sessions[s] EXCEPT !.pc = "insert"]
    ELSE [sessions[s] EXCEPT
            !.modelId = (CHOOSE m \in found : TRUE).id,
            !.pc = IF KeyCount(sessions[s].result.inputParameters) > 0
                   THEN "update" ELSE "period",
            !.pj = 1]
\* "const existing = await client.query("SELECT id FROM financial_models WHERE
\*  company_id = $1 AND name = $2"); if (existing.rows.length > 0) ... else ..."
RaceSelect(s) ==
    /\ sessions[s].pc = "select"
    /\ sessions' = [sessions EXCEPT ![s] =
                       AfterSelect(s, ExistingModels(Visible(s), Acme, RaceBlock(s).name))]
    /\ UNCHANGED <<db, nextId>>
    /\ RaceUnchanged

\* "UPDATE financial_models SET model_parameters = $1 ... WHERE id = $2"
RaceUpdateModel(s) ==
    /\ sessions[s].pc = "update"
    /\ ~MustWait(s, ModelKey(sessions[s].modelId))
    /\ sessions' = [sessions EXCEPT
                       ![s].ops = Append(@, UpdateOp(sessions[s].modelId,
                                                     sessions[s].result.inputParameters)),
                       ![s].pc = "period"]
    /\ UNCHANGED <<db, nextId>>
    /\ RaceUnchanged

\* "INSERT INTO financial_models ... RETURNING id": no committed row has the name
RaceInsertModel(s) ==
    /\ sessions[s].pc = "insert"
    /\ ~MustWait(s, NameKey(RaceBlock(s).name))
    /\ ExistingModels(db, Acme, RaceBlock(s).name) = {}
    /\ sessions' = [sessions EXCEPT
                       ![s].ops = Append(@, InsertOp(nextId, RaceBlock(s).name,
                                                     sessions[s].result.inputParameters)),
                       ![s].modelId = nextId,
                       ![s].pj = 1,
                       ![s].pc = "period"]
    /\ nextId' = nextId + 1
    /\ UNCHANGED db
    /\ RaceUnchanged

\* The INSERT finds a committed row of the name (company_id, name is UNIQUE): the
\* query rejects, "catch (err) { await client.query("ROLLBACK"); throw err }", and
\* the outer catch answers 500
RaceUniqueViolation(s) ==
    /\ sessions[s].pc = "insert"
    /\ ~MustWait(s, NameKey(RaceBlock(s).name))
    /\ ExistingModels(db, Acme, RaceBlock(s).name) # {}
    /\ sessions' = [sessions EXCEPT ![s].ops = <<>>,
                                     ![s].pc = "done",
                                     ![s].response = 500,
                                     ![s].error = "unique_violation"]
    /\ nextId' = nextId + 1
    /\ UNCHANGED db
    /\ RaceUnchanged

\* "for (const p of modelBlock.periods) { await client.query(INSERT ... ON CONFLICT"
RaceStorePeriod(s) ==
    /\ sessions[s].pc = "period"
    /\ sessions[s].pj <= Len(RaceBlock(s).periods)
    /\ ~MustWait(s, PeriodKey(sessions[s].modelId, RaceBlock(s).periods[sessions[s].pj]))
    /\ sessions' = [sessions EXCEPT
                       ![s].ops = Append(@, UpsertOp(sessions[s].modelId,
                                                     RaceBlock(s).periods[sessions[s].pj])),
                       ![s].pj = @ + 1]
    /\ UNCHANGED <<db, nextId>>
    /\ RaceUnchanged

\* "await client.query("COMMIT"); res.status(201).json(...)"
RaceCommit(s) ==
    /\ sessions[s].pc = "period"
    /\ sessions[s].pj > Len(RaceBlock(s).periods)
    /\ db' = Visible(s)
    /\ sessions' = [sessions EXCEPT ![s].ops = <<>>,
                                     ![s].pc = "done",
                                     ![s].response = 201]
    /\ UNCHANGED nextId
    /\ RaceUnchanged

\* ------------------------------------------------------------------------
\* The documents the model parses
\* ------------------------------------------------------------------------

\* Bounds
MaxRows == 3        \* rows of a sheet of the free family
MaxSheets == 2      \* sheets of a workbook of the multi-sheet family
WideCols == 11      \* columns of a sheet of the wide family

N(x) == Num(x * Scale)
T_Revenue   == Str(<<"R","e","v","e","n","u","e">>)
T_EBITDA    == Str(<<"E","B","I","T","D","A">>)
T_Capex     == Str(<<"C","a","p","e","x">>)
T_Headcount == Str(<<"H","e","a","d","c","o","u","n","t">>)
T_x         == Str(<<"x">>)
T_Input     == Str(<<"I","n","p","u","t">>)
T_NameA     == Str(<<"N","a","m","e",":"," ","A">>)
T_NameB     == Str(<<" ","n","a","m","e",":"," "," ","P","l","a","n"," ","B"," ">>)
T_NameOnly  == Str(<<"N","a","m","e",":"," ">>)
T_ScenarioA == Str(<<"S","c","e","n","a","r","i","o"," ","A">>)
T_PlanB     == Str(<<"P","l","a","n"," ","B">>)
T_FY2026    == Str(<<"F","Y","2","0","2","6">>)
T_2027E     == Str(<<"2","0","2","7","E">>)
T_12025     == Str(<<"1","2","0","2","5">>)
T_na        == Str(<<"n","/","a">>)
T_1105      == Str(<<"1"," ","1","0","5",",","0">>)
T_MipShare  == Str(<<"M","I","P"," ","s","h","a","r","e">>)
T_TsoWarrants == Str(<<"T","S","O"," ","w","a","r","r","a","n","t","s">>)
T_EV        == Str(<<"E","V">>)
T_PctGrowth == Str(<<"%"," ","g","r","o","w","t","h">>)
T_PctVekst  == Str(<<"%"," ","v","e","k","s","t">>)
T_PctMargin == Str(<<"%"," ","m","a","r","g","i","n">>)
T_EbitdaManaged ==
    Str(<<"E","B","I","T","D","A"," ","m","a","n","a","g","e","d"," ","s","e","r","v","i","c","e","s">>)

\* The rows of the free family: label, then two value columns
FreeRows == <<
    <<NullCell,    N(2025),          N(2026)>>,
    <<NullCell,    N(2026),          N(2025)>>,
    <<T_NameA,     N(2025),          N(2026)>>,
    <<T_NameB,     NullCell,         NullCell>>,
    <<T_ScenarioA, NullCell,         NullCell>>,
    <<T_PlanB,     N(2025),          N(2026)>>,
    <<T_Revenue,   N(100),           N(110)>>,
    <<T_Headcount, N(7),             T_na>>,
    <<NullCell,    NullCell,         NullCell>>
>>

\* The rows of the label family
LabelRows == <<
    <<T_Revenue,   N(100),           N(110)>>,
    <<T_EBITDA,    T_1105,           NullCell>>,
    <<T_Capex,     N(5),             Formula(<<N(7)>>)>>,
    <<T_Headcount, N(7),             T_na>>,
    <<T_x,         N(1),             N(2)>>,
    <<T_Input,     N(1),             Formula(<<>>)>>
>>

\* The rows of the context family
ContextRows == <<
    <<T_EBITDA,        N(20),        N(24)>>,
    <<T_PctGrowth,     N(3),         N(4)>>,
    <<T_PctVekst,      N(5),         N(6)>>,
    <<T_EbitdaManaged, N(8),         N(9)>>,
    <<T_PctMargin,     N(30),        N(31)>>
>>

SheetName1 == <<"S","h","e","e","t","1">>
SheetName2 == <<"B","u","d","g","e","t">>

RECURSIVE SeqsUpTo(_, _)
\* the sequences over 1..n of length 1..len
SeqsUpTo(n, len) ==
    IF len = 0 THEN {}
    ELSE LET shorter == SeqsUpTo(n, len - 1)
         IN  {<<i>> : i \in 1..n} \cup shorter
               \cup {Append(s, i) : s \in {q \in shorter : Len(q) = len - 1}, i \in 1..n}

FreeSheets ==
    {[name |-> SheetName1, rows |-> [j \in 1..Len(ix) |-> FreeRows[ix[j]]]] :
        ix \in SeqsUpTo(Len(FreeRows), MaxRows)}

\* The sheets of the label family: a year header, then two rows of LabelRows
LabelSheets ==
    {[name |-> SheetName1,
      rows |-> << <<NullCell, N(2025), N(2026)>>, LabelRows[a], LabelRows[b] >>] :
        a \in 1..Len(LabelRows), b \in 1..Len(LabelRows)}

\* The sheets of the context family: a year header, a Revenue row, then two rows
\* of ContextRows
ContextSheets ==
    {[name |-> SheetName1,
      rows |-> << <<NullCell, N(2025), N(2026)>>, <<T_Revenue, N(100), N(110)>>,
                  ContextRows[a], ContextRows[b] >>] :
        a \in 1..Len(ContextRows), b \in 1..Len(ContextRows)}

\* The labels the valuation-model requirement "Map known row labels to financial
\* fields" lists, each with the field it names
DocumentedLabels == <<
    [label |-> <<"R","e","v","e","n","u","e">>,
     field |-> "revenue_total"],
    [label |-> <<"E","B","I","T","D","A">>,
     field |-> "ebitda_total"],
    [label |-> <<"E","B","I","T","D","A"," ","%">>,
     field |-> "ebitda_margin"],
    [label |-> <<"O","r","g","a","n","i","c"," ","g","r","o","w","t","h"," ","%">>,
     field |-> "organic_growth"],
    [label |-> <<"A","c","q","u","i","r","e","d"," ","r","e","v","e","n","u","e">>,
     field |-> "acquired_revenue"],
    [label |-> <<"N","u","m","b","e","r"," ","o","f"," ","s","h","a","r","e","s">>,
     field |-> "share_count"],
    [label |-> <<"N","I","B","D">>,
     field |-> "nibd"],
    [label |-> <<"O","p","t","i","o","n"," ","d","e","b","t">>,
     field |-> "option_debt"],
    [label |-> <<"E","V">>,
     field |-> "enterprise_value"],
    [label |-> <<"E","Q","V">>,
     field |-> "equity_value"],
    [label |-> <<"P","r","e","f","e","r","r","e","d"," ","e","q","u","i","t","y">>,
     field |-> "preferred_equity"],
    [label |-> <<"P","e","r"," ","s","h","a","r","e"," ","(","b","e","f","o","r","e"," ","M","I","P"," ","&"," ","T","S","O",")">>,
     field |-> "per_share_pre"],
    [label |-> <<"M","I","P">>,
     field |-> "mip_amount"],
    [label |-> <<"T","S","O">>,
     field |-> "tso_amount"],
    [label |-> <<"E","x","i","s","t","i","n","g"," ","w","a","r","r","a","n","t","s">>,
     field |-> "warrants_amount"],
    [label |-> <<"E","Q","V"," ","(","p","o","s","t"," ","M","I","P",","," ","T","S","O",","," ","E","x","W",")">>,
     field |-> "eqv_post_dilution"],
    [label |-> <<"P","e","r"," ","s","h","a","r","e"," ","(","p","o","s","t"," ","M","I","P",","," ","T","S","O",","," ","E","x","W",")">>,
     field |-> "per_share_post"]
>>

\* The sheets of the documented family: a year header, then one documented label
\* with the values 1 and 2
DocumentedSheets ==
    {[name |-> SheetName1,
      rows |-> << <<NullCell, N(2025), N(2026)>>,
                  <<Str(DocumentedLabels[i].label), N(1), N(2)>> >>] :
        i \in 1..Len(DocumentedLabels)}

\* Numbers as text. A style is a thousands separator (or none) and a decimal mark;
\* FormatAmount writes v, a count of 1/Scale, in the style, with one decimal.
RECURSIVE Grouped(_, _)
Grouped(ds, sep) ==
    IF Len(ds) <= 3 THEN ds
    ELSE Grouped(SubSeq(ds, 1, Len(ds) - 3), sep) \o sep \o SubSeq(ds, Len(ds) - 2, Len(ds))
FormatAbs(a, style) ==
    Grouped(NatToStr(a \div Scale), style.group) \o style.dec \o NatToStr(a % Scale)
FormatAmount(v, style) ==
    IF v < 0 THEN <<"-">> \o FormatAbs(0 - v, style) ELSE FormatAbs(v, style)

Norwegian     == [group |-> <<" ">>,    dec |-> <<",">>]
NorwegianNbsp == [group |-> <<"NBSP">>, dec |-> <<",">>]
CommaOnly     == [group |-> <<>>,       dec |-> <<",">>]
English       == [group |-> <<",">>,    dec |-> <<".">>]
European      == [group |-> <<".">>,    dec |-> <<",">>]
Styles == {Norwegian, NorwegianNbsp, CommaOnly, English, European}
Amounts == {5, 1055, 11050, 12345678, 0 - 11050}
NumberTexts == {FormatAmount(v, st) : v \in Amounts, st \in Styles}

\* The sheets of the number family: a header of three years, then a Revenue row
\* with a text in the first year column, 110 in the second and a sentinel or a
\* number as text in the third
NumberSheets ==
    {[name |-> SheetName1,
      rows |-> << <<NullCell, N(2025), N(2026), N(2027)>>,
                  <<T_Revenue, Str(a), N(110), Str(b)>> >>] :
        a \in NumberTexts,
        b \in Sentinels \cup {FormatAmount(11050, English), FormatAmount(11050, European)}}

\* Texts that are not numbers, and the sheets of the annotated family: a header of
\* three years, a Revenue row with such a text in the first year column, and an
\* EBITDA row
StrayTexts == { <<"a","b","c">>, <<"1","2","a","b","c">>, <<"1","0","0"," ","N","O","K">>,
                <<"s","e","e"," ","n","o","t","e"," ","3">> }
AnnotatedSheets ==
    {[name |-> SheetName1,
      rows |-> << <<NullCell, N(2025), N(2026), N(2027)>>,
                  <<T_Revenue, Str(a), N(110), N(121)>>,
                  <<T_EBITDA, N(20), N(24), N(28)>> >>] :
        a \in StrayTexts}

\* The kinds of raw cell a label and a value come as: plain, rich text, hyperlink,
\* formula with and without a cached result, shared formula, boolean, error, date
LabelKinds == { T_Revenue,
                Rich(<<Str(<<"R","e","v">>), Str(<<"e","n","u","e">>)>>),
                Hyperlink(<<"R","e","v","e","n","u","e">>),
                Formula(<<T_Revenue>>) }
ValueKinds == { N(100), Formula(<<N(100)>>), Formula(<<>>), Shared(<<N(100)>>),
                Bool(TRUE), ErrorValue(<<"#","N","/","A">>), Formula(<<ErrorValue(<<"#","D","I","V","/","0","!">>)>>),
                Hyperlink(<<"1","0","0">>), DateCell(2025) }
KindSheets ==
    {[name |-> SheetName1,
      rows |-> << <<NullCell, N(2025), N(2026)>>,
                  <<l, a, N(110)>>,
                  <<T_EBITDA, N(20), N(24)>> >>] :
        l \in LabelKinds, a \in ValueKinds}

\* The sheets of the gap family: section "Scenario A" with a header and a Revenue
\* row, a run of empty rows, a stray EBITDA row or none, section "Plan B" with its
\* years and a Revenue row, and at the end another run and a stray row, or neither
EmptyRow == <<NullCell, NullCell, NullCell>>
EmptyRun(n) == [i \in 1..n |-> EmptyRow]
GapLengths == {2, 3, 4}
GapSheets ==
    {[name |-> SheetName1,
      rows |-> << <<T_ScenarioA, NullCell, NullCell>>,
                  <<NullCell, N(2025), N(2026)>>,
                  <<T_Revenue, N(100), N(110)>> >>
               \o EmptyRun(g)
               \o (IF stray THEN << <<T_EBITDA, N(20), N(24)>> >> ELSE <<>>)
               \o << <<T_PlanB, N(2025), N(2026)>>,
                     <<T_Revenue, N(200), N(220)>> >>
               \o (IF tail THEN EmptyRun(g) \o << <<T_EBITDA, N(30), N(33)>> >>
                   ELSE <<>>)] :
        g \in GapLengths, stray \in BOOLEAN, tail \in BOOLEAN}

\* Labels that name a sub-field, each with the general label of its group, and the
\* sheets of the sub-field family: a year header, a Revenue row, the general row
\* and the sub-field row
SubFieldLabels == <<
    [label |-> <<"E","B","I","T","D","A"," ","m","a","n","a","g","e","d"," ","s","e","r","v","i","c","e","s">>,
     field |-> "ebitda_managed_services",
     general |-> <<"M","a","n","a","g","e","d"," ","s","e","r","v","i","c","e","s">>],
    [label |-> <<"E","B","I","T","D","A"," ","p","r","o","f","e","s","s","i","o","n","a","l"," ","s","e","r","v","i","c","e","s">>,
     field |-> "ebitda_professional_services",
     general |-> <<"P","r","o","f","e","s","s","i","o","n","a","l"," ","s","e","r","v","i","c","e","s">>],
    [label |-> <<"C","a","p","e","x"," ","%"," ","o","f"," ","r","e","v","e","n","u","e">>,
     field |-> "capex_pct_revenue",
     general |-> <<"C","a","p","e","x">>]
>>
SubFieldSheets ==
    {[name |-> SheetName1,
      rows |-> << <<NullCell, N(2025), N(2026)>>,
                  <<T_Revenue, N(100), N(110)>>,
                  <<Str(SubFieldLabels[i].general), N(50), N(55)>>,
                  <<Str(SubFieldLabels[i].label), N(8), N(9)>> >>] :
        i \in 1..Len(SubFieldLabels)}

\* The sheets of the repeat family: a year header and two rows of one field, the
\* second with a number, nothing, a sentinel, a number text or an annotated number
RepeatCells == { N(200), NullCell, T_na, T_1105, Str(<<"1","2","a","b","c">>) }
RepeatSheets ==
    {[name |-> SheetName1,
      rows |-> << <<NullCell, N(2025), N(2026)>>,
                  <<T_Revenue, N(100), N(110)>>,
                  <<l, a, b>> >>] :
        l \in {T_Revenue, Str(<<"T","o","t","a","l"," ","r","e","v","e","n","u","e">>)}, a \in RepeatCells, b \in RepeatCells}

\* Header rows of three year cells, and the sheets of the header family:
\* a header row, then a Revenue row and an EBITDA row
HeaderCells == <<N(2025), N(2026), N(2027), N(2019), N(2041), Num(20255), T_FY2026,
                 T_2027E, T_12025, DateCell(2027), NullCell>>
HeaderSheets ==
    {[name |-> SheetName1,
      rows |-> << <<NullCell, HeaderCells[a], HeaderCells[b], HeaderCells[c]>>,
                  <<T_Revenue, N(100), N(110), N(121)>>,
                  <<T_EBITDA, N(20), N(24), N(28)>> >>] :
        a \in 1..Len(HeaderCells), b \in 1..Len(HeaderCells), c \in 1..Len(HeaderCells)}

\* The sheets multi-sheet workbooks are made of
SampleSheets == <<
    [rows |-> <<>>],
    [rows |-> << <<NullCell, N(2025), N(2026)>>, <<T_Revenue, N(100), N(110)>> >>],
    [rows |-> << <<T_Revenue, N(100), N(110)>> >>],
    [rows |-> << <<NullCell, N(2025), N(2026)>>, <<T_Headcount, N(7), N(8)>> >>],
    [rows |-> << <<T_NameA, N(2025), N(2026)>>, <<T_EBITDA, N(20), NullCell>>,
                 <<T_NameB, NullCell, NullCell>> >>],
    [rows |-> << <<T_ScenarioA, NullCell, NullCell>>, <<T_PlanB, N(2026), N(2027)>>,
                 <<T_Revenue, NullCell, N(110)>> >>]
>>

SheetNameOf(i) == IF i = 1 THEN SheetName1 ELSE SheetName2 \o <<DigitCh[i + 1]>>

MultiWorkbooks ==
    { [i \in 1..Len(ix) |-> [name |-> SheetNameOf(i), rows |-> SampleSheets[ix[i]].rows]] :
        ix \in {q \in SeqsUpTo(Len(SampleSheets), MaxSheets) : Len(q) >= 2} }

\* The sheets of the workbooks of the parameter family: parameter rows or none
\* above the year header, a Revenue row, an inline EV multiple or none below it
ParamSheets == <<
    [rows |-> << <<T_MipShare, Num(1), NullCell>>, <<NullCell, N(2025), N(2026)>>,
                 <<T_Revenue, N(100), N(110)>> >>],
    [rows |-> << <<T_MipShare, NullCell, NullCell>>, <<NullCell, N(2025), N(2026)>>,
                 <<T_Revenue, N(100), N(110)>> >>],
    [rows |-> << <<T_MipShare, Num(2), NullCell>>, <<NullCell, N(2025), N(2026)>>,
                 <<T_Revenue, N(100), N(110)>> >>],
    [rows |-> << <<NullCell, N(2025), N(2026)>>, <<T_Revenue, N(100), N(110)>>,
                 <<T_EV, Num(85), NullCell>> >>],
    [rows |-> << <<NullCell, N(2025), N(2026)>>, <<T_Revenue, N(100), N(110)>> >>],
    [rows |-> << <<T_TsoWarrants, N(5), N(7)>>, <<NullCell, N(2025), N(2026)>>,
                 <<T_Revenue, N(100), N(110)>> >>]
>>
ParamWorkbooks ==
    { << [name |-> SheetNameOf(1), rows |-> ParamSheets[a].rows],
         [name |-> SheetNameOf(2), rows |-> ParamSheets[b].rows] >> :
        a \in 1..Len(ParamSheets), b \in 1..Len(ParamSheets) }

\* Sheets of WideCols columns: a marker in column c of row 1, a year header and a
\* Revenue row below it
WideSheets ==
    {[name |-> SheetName1,
      rows |-> << [k \in 1..WideCols |-> IF k = c THEN m ELSE IF k = d THEN T_NameOnly
                                         ELSE NullCell],
                  [k \in 1..WideCols |-> IF k = 2 THEN N(2025) ELSE IF k = 3 THEN N(2026)
                                         ELSE NullCell],
                  [k \in 1..WideCols |-> IF k = 1 THEN T_Revenue
                                         ELSE IF k \in {2, 3} THEN N(100) ELSE NullCell] >>] :
        c \in 1..WideCols, d \in 0..2, m \in {T_NameA, T_NameB}}

FileNames == { <<>>, <<<<"m","y","-","p","l","a","n","_","v","2",".","x","l","s","x">>>> }
\* Uploaded names that are an extension only, or dashes and an extension
BareFileNames == { <<<<".","x","l","s","x">>>>, <<<<"_","-",".","x","l","s","x">>>> }

\* The Parse Results the import stores: model blocks A and B with periods for 2025
\* and 2026 (and one for the header cell 2025.5), with and without parameters
PeriodOf(year, revenue, ebitda) ==
    SetField(SetField(createEmptyPeriod(year, MinOf(CurrentYears)), "revenue_total",
                      revenue),
             "ebitda_total", ebitda)
P2025(revenue, ebitda) == PeriodOf(2025 * Scale, revenue, ebitda)
P2026(revenue, ebitda) == PeriodOf(2026 * Scale, revenue, ebitda)
BlockOf(name, periods) == [name |-> name, periods |-> periods, unmappedRows |-> <<>>]
ResultOf(models, ps) == [models |-> models, inputParameters |-> ps, warnings |-> <<>>]
MipShare(v) == SetParam(EmptyParams, "mip_share_pct", <<v>>)

ParseResults == {
    ResultOf(<<BlockOf(<<"A">>, <<P2025(<<N(100).n>>, <<N(20).n>>), P2026(<<N(110).n>>, <<>>)>>)>>,
             MipShare(1)),
    ResultOf(<<BlockOf(<<"A">>, <<P2025(<<N(200).n>>, <<>>)>>)>>, EmptyParams),
    ResultOf(<<BlockOf(<<"A">>, <<P2026(<<>>, <<N(24).n>>)>>)>>, MipShare(2)),
    ResultOf(<<BlockOf(<<"B">>, <<P2025(<<N(50).n>>, <<>>)>>)>>, EmptyParams),
    ResultOf(<<BlockOf(<<"A">>, <<P2025(<<N(100).n>>, <<>>)>>),
               BlockOf(<<"B">>, <<P2025(<<N(50).n>>, <<>>)>>)>>, MipShare(1)),
    ResultOf(<<BlockOf(<<"A">>, <<P2025(<<N(100).n>>, <<>>)>>),
               BlockOf(<<"A">>, <<P2025(<<>>, <<N(20).n>>)>>)>>, EmptyParams),
    ResultOf(<<BlockOf(<<"A">>, <<P2026(<<N(110).n>>, <<>>),
                                  PeriodOf(2025 * Scale + 5, <<N(100).n>>, <<>>)>>)>>,
             EmptyParams) }

\* The request passed the checks and parseExcelBuffer returned a result
Begin == \E result \in ParseResults : BeginWith(result)

ImportNext ==
    \/ RejectUpload
    \/ Begin
    \/ StoreExistingModel
    \/ StoreNewModel
    \/ StorePeriod
    \/ Commit
    \/ FailStatement

\* The Parse Results of the requests served at the same time: one block, A or B
RaceResults == {r \in ParseResults :
                   Len(r.models) = 1 /\ \A j \in 1..Len(r.models[1].periods) :
                                           ValidDate(r.models[1].periods[j].period_date)}
RaceBegin(s) == \E result \in RaceResults : RaceBeginWith(s, result)

RaceNext ==
    \E s \in Sessions :
        \/ RaceBegin(s)
        \/ RaceSelect(s)
        \/ RaceUpdateModel(s)
        \/ RaceInsertModel(s)
        \/ RaceUniqueViolation(s)
        \/ RaceStorePeriod(s)
        \/ RaceCommit(s)

\* No request yet, the tables empty
StoreInit ==
    /\ db = EmptyTables
    /\ tx = <<>>
    /\ ipc = "idle"
    /\ parseResult = NoParseResult
    /\ mi = 0
    /\ pj = 0
    /\ modelId = 0
    /\ summary = NoSummary
    /\ nextId = 1
    /\ uploads = 0
    /\ response = 0
    /\ before = EmptyTables
    /\ lastUpsert = <<>>
    /\ sessions = NoSessions

\* No call yet
ParserInit ==
    /\ pc = "load"
    /\ sheetIdx = 0
    /\ allModels = <<>>
    /\ warnings = <<>>
    /\ inputParameters = EmptyParams
    /\ error = "none"
    /\ sheetLog = <<>>
    /\ blockLog = <<>>
    /\ previous = <<>>

Init ==
    /\ \/ /\ workbook \in {<<s>> : s \in FreeSheets \cup HeaderSheets}
          /\ filename = <<>>
          /\ currentYear = MinOf(CurrentYears)
       \/ /\ workbook \in {<<s>> : s \in LabelSheets \cup WideSheets \cup ContextSheets
                                             \cup DocumentedSheets \cup NumberSheets
                                             \cup AnnotatedSheets \cup KindSheets
                                             \cup GapSheets \cup SubFieldSheets
                                             \cup RepeatSheets}
                            \cup MultiWorkbooks \cup ParamWorkbooks \cup {<<>>}
          /\ filename \in FileNames
          /\ currentYear \in CurrentYears
       \/ /\ workbook \in {<<s>> : s \in LabelSheets} \cup MultiWorkbooks
          /\ filename \in BareFileNames
          /\ currentYear = MinOf(CurrentYears)
    /\ ParserInit
    /\ StoreInit

\* The documents parsed twice
TwiceInit ==
    /\ workbook \in {<<s>> : s \in LabelSheets \cup ContextSheets}
                      \cup MultiWorkbooks \cup ParamWorkbooks \cup {<<>>}
    /\ filename \in FileNames
    /\ currentYear \in CurrentYears
    /\ ParserInit
    /\ StoreInit

ImportInit ==
    /\ workbook = <<>>
    /\ filename = <<>>
    /\ currentYear = MinOf(CurrentYears)
    /\ ParserInit
    /\ StoreInit

Spec == Init /\ [][Next]_vars
TwiceSpec == TwiceInit /\ [][TwiceNext]_vars
ImportSpec == ImportInit /\ [][ImportNext]_vars
RaceSpec == ImportInit /\ [][RaceNext]_vars

\* ------------------------------------------------------------------------
\* What the result is checked against
\* ------------------------------------------------------------------------

\* parseExcelBuffer has returned or thrown after a workbook with sheets was decoded
Finished == pc \in {"returned", "thrown"} /\ Len(workbook) > 0

\* The blocks that yielded a model, in the order parsed: allModels[k] is the model
\* of Emitted[k]
Emitted == SelectSeq(blockLog, LAMBDA e : e.emitted)
Dropped == SelectSeq(blockLog, LAMBDA e : ~e.emitted)
LogsOfSheet(i) == SelectSeq(blockLog, LAMBDA e : e.sheet = i)

DropKinds == {"no_years", "no_data", "all_empty"}
DropWarnings == SelectSeq(warnings, LAMBDA w : w.kind \in DropKinds)

HasData(p) == \E k \in FieldKeys : p.f[k] # <<>>

\* The blocks a strategy makes of sheet ws
BlocksOf(ws, strategy) ==
    CASE strategy = "name"    -> findNameBlocks(ws)
      [] strategy = "section" -> findSectionBlocks(ws)
      [] strategy = "whole"   -> WholeSheetBlock(ws, sheetModelName(workbook, ws, filename))
      [] OTHER -> <<>>

\* The strategies tried up to and including strategy
TriedUpTo(strategy) ==
    CASE strategy = "name"    -> {"name"}
      [] strategy = "section" -> {"name", "section"}
      [] strategy = "whole"   -> {"name", "section", "whole"}
      [] OTHER -> {}

\* The strategy that wins on ws when section heuristics need at least n blocks
WinnerWith(ws, n) ==
    IF Len(findNameBlocks(ws)) >= 1 THEN "name"
    ELSE IF Len(findSectionBlocks(ws)) >= n THEN "section"
    ELSE "whole"

\* The blocks parsed for a sheet (logs) are the blocks the strategy made of it
ParsedAre(logs, strategy, blocks) ==
    /\ Len(logs) = Len(blocks)
    /\ \A j \in 1..Len(logs) :
          /\ logs[j].strategy = strategy
          /\ logs[j].log.name = blocks[j].name
          /\ logs[j].log.startRow = blocks[j].startRow

\* Sheet number k was handled as the order of strategies says, section heuristics
\* needing at least n blocks: the winner's blocks, and only they, were parsed
SheetHandled(k, n) ==
    /\ sheetLog[k].sheet = k
    /\ IF IsEmptySheet(workbook[k])
       THEN sheetLog[k].strategy = "none" /\ LogsOfSheet(k) = <<>>
       ELSE /\ sheetLog[k].strategy = WinnerWith(workbook[k], n)
            /\ sheetLog[k].attempted = TriedUpTo(sheetLog[k].strategy)
            /\ ParsedAre(LogsOfSheet(k), sheetLog[k].strategy,
                         BlocksOf(workbook[k], sheetLog[k].strategy))

\* The text of a cell reads "Name: X": X, trimmed; <<>> when it does not
MarkerName(text) ==
    IF Len(text) >= 5 /\ ToLower(SubSeq(text, 1, 5)) = <<"n","a","m","e",":">>
    THEN Trim(SubSeq(text, 6, Len(text))) ELSE <<>>

\* The years the qualifying cells of row r read, from left to right
RECURSIVE HeaderYearsFrom(_, _, _)
HeaderYearsFrom(ws, r, c) ==
    IF c > Min(YearScanCols, columnCount(ws)) THEN <<>>
    ELSE YearOfCell(getCell(ws, r, c)) \o HeaderYearsFrom(ws, r, c + 1)
HeaderYears(ws, r) == HeaderYearsFrom(ws, r, 1)

\* Some block of blocks is named name
HasBlockNamed(blocks, name) == \E b \in 1..Len(blocks) : blocks[b].name = name

\* Every "Name: X" cell of ws, X not empty, has a block named X among blocks
MarkersHaveBlocks(ws, blocks) ==
    \A r \in 1..rowCount(ws) : \A c \in 1..columnCount(ws) :
        MarkerName(cellStr(getCell(ws, r, c))) # <<>> =>
            HasBlockNamed(blocks, MarkerName(cellStr(getCell(ws, r, c))))

Distinct(seq) == \A i, j \in 1..Len(seq) : i # j => seq[i] # seq[j]
Ascending(seq) == \A i, j \in 1..Len(seq) : i < j => seq[i] < seq[j]
YearsOf(periods) == [i \in 1..Len(periods) |-> periods[i].year]
PositionIn(seq, x) == CHOOSE i \in 1..Len(seq) : seq[i] = x

\* The periods are in the order their years have in hdr
InOrderOf(periods, hdr) ==
    /\ \A i \in 1..Len(periods) : \E h \in 1..Len(hdr) : hdr[h] = periods[i].year
    /\ \A i, j \in 1..Len(periods) :
          i < j => PositionIn(hdr, periods[i].year) < PositionIn(hdr, periods[j].year)

\* A year written out in decimal: 2025 as "2025", 2025.5 as "2025.5"
YearText(y) ==
    << DigitCh[((y \div (1000 * Scale)) % 10) + 1], DigitCh[((y \div (100 * Scale)) % 10) + 1],
       DigitCh[((y \div (10 * Scale)) % 10) + 1], DigitCh[((y \div Scale) % 10) + 1] >>
    \o (IF y % Scale = 0 THEN <<>> ELSE <<".", DigitCh[(y % Scale) + 1]>>)

\* The header row of the k-th emitted block
HeaderOfEmitted(k) == HeaderYears(workbook[Emitted[k].sheet], Emitted[k].log.headerRow)

\* The rows of a parsed block the label mapper knew no field for and that have a
\* number in a year column
UnmappedWithData(log) ==
    SelectSeq(log.rowLog, LAMBDA e : e.what = "unmapped" /\ e.hasData)
LabelsOf(entries) == [i \in 1..Len(entries) |-> entries[i].label]

\* The warnings that report block name's unmapped rows
UnmappedWarnings(name) ==
    SelectSeq(warnings, LAMBDA w : w.kind = "unmapped" /\ w.name = name)

\* ------------------------------------------------------------------------
\* Properties
\* ------------------------------------------------------------------------

\* C1: parseExcelBuffer never returns a result whose models list is empty; when no
\* block of any sheet yields a model (none found, or every one dropped) it ends in
\* the diagnostic failure instead of returning.
C1_NeverReturnsEmpty ==
    /\ pc = "returned" => Len(allModels) > 0
    /\ (Finished /\ Emitted = <<>>) => pc = "thrown" /\ error = "no_data"

\* C1: every block of the workbook was dropped and the call threw
C1_Witness ==
    pc = "thrown" /\ error = "no_data" /\ blockLog # <<>> /\ Emitted = <<>>

\* C2: with a decoded workbook of at least one sheet the call raises only when zero
\* models were produced and returns as soon as one block yields a model; a dropped
\* block only adds a warning: every sheet is still processed, every block of every
\* sheet is still parsed, and every block that yields a model is emitted.
C2_RaisesOnlyOnZeroModels ==
    /\ (pc = "thrown" /\ Len(workbook) > 0) =>
          error = "no_data" /\ allModels = <<>> /\ Emitted = <<>>
    /\ (Finished /\ Emitted # <<>>) => pc = "returned"
    /\ Len(allModels) = Len(Emitted)
    /\ \A k \in 1..Len(allModels) : allModels[k].name = Emitted[k].log.name
    /\ Len(DropWarnings) = Len(Dropped)
    /\ Finished =>
          /\ Len(sheetLog) = Len(workbook)
          /\ \A k \in 1..Len(sheetLog) :
                Len(LogsOfSheet(k)) = Len(BlocksOf(workbook[k], sheetLog[k].strategy))

\* C2: the call returned although a block was dropped before a block that was emitted
C2_Witness ==
    /\ pc = "returned"
    /\ \E i, j \in 1..Len(blockLog) :
          i < j /\ ~blockLog[i].emitted /\ blockLog[j].emitted

\* C3 (as amended): per sheet the strategies are tried in the order marker rows,
\* section heuristics, whole-sheet fallback; marker rows win with at least one
\* block, section heuristics win only with at least two blocks, otherwise the
\* whole-sheet fallback is used; only the winner's blocks are parsed and no later
\* strategy is attempted.
C3_StrategyOrder ==
    \A k \in 1..Len(sheetLog) : SheetHandled(k, 2)

\* C3: a sheet with no marker row and exactly one section block was parsed by the
\* whole-sheet fallback
C3_Witness ==
    \E k \in 1..Len(sheetLog) :
        /\ sheetLog[k].strategy = "whole"
        /\ Len(findSectionBlocks(workbook[k])) = 1

\* C3 (as claimed): the first strategy that yields at least one block, exactly one
\* included, is the only one whose blocks are parsed for the sheet.
C3_Original ==
    \A k \in 1..Len(sheetLog) : SheetHandled(k, 1)

\* C4 (as claimed): for any sheet with a cell whose text is "Name: X", X not empty,
\* in any column of any row, marker-row segmentation produces a block named X.
C4_Original ==
    \A k \in 1..Len(sheetLog) :
        MarkersHaveBlocks(workbook[k], findNameBlocks(workbook[k]))

DistinctAndOrdered(years, hdr) ==
    /\ Distinct(years)
    /\ Ascending(hdr) => Ascending(years)

\* C5 (as amended): in every emitted model block no two periods share a year, and
\* the periods are in strictly ascending year order whenever the years of the
\* header row ascend from left to right.
C5_DistinctYears ==
    \A k \in 1..Len(allModels) :
        DistinctAndOrdered(YearsOf(allModels[k].periods), HeaderOfEmitted(k))

\* C5: a block was emitted with several periods from a header row that repeats a year
C5_Witness ==
    \E k \in 1..Len(allModels) :
        /\ Len(allModels[k].periods) >= 2
        /\ ~Distinct(HeaderOfEmitted(k))

\* C5 (as claimed): the periods of every emitted model block are in strictly
\* ascending year order, whatever the order of the years in the header row.
C5_Original ==
    \A k \in 1..Len(allModels) : Ascending(YearsOf(allModels[k].periods))

FollowsHeader(periods, rawPeriods, hdr) ==
    Distinct(hdr) =>
        /\ YearsOf(rawPeriods) = hdr
        /\ InOrderOf(periods, hdr)
        /\ \A i \in 1..Len(periods) :
              periods[i].period_date =
                  YearText(periods[i].year) \o <<"-","1","2","-","3","1">>

\* C6: when the qualifying cells of the header row read distinct years y1..yn from
\* left to right, the period axis is y1..yn, the emitted periods are in that order,
\* and the date of each period is its year followed by -12-31.
C6_HeaderOrder ==
    \A k \in 1..Len(allModels) :
        FollowsHeader(allModels[k].periods, Emitted[k].log.rawPeriods, HeaderOfEmitted(k))

\* C6: the header row [2025, 2026, 2027] gave the periods 2025-12-31, 2026-12-31,
\* 2027-12-31 in that order
C6_Witness ==
    \E k \in 1..Len(allModels) :
        /\ HeaderOfEmitted(k) = <<2025 * Scale, 2026 * Scale, 2027 * Scale>>
        /\ [i \in 1..Len(allModels[k].periods) |-> allModels[k].periods[i].period_date]
              = << <<"2","0","2","5","-","1","2","-","3","1">>,
                   <<"2","0","2","6","-","1","2","-","3","1">>,
                   <<"2","0","2","7","-","1","2","-","3","1">> >>

\* C7 (as claimed): every period of every emitted model block has a year that is an
\* integer in 2020..2040, whatever the kind of the header cell.
C7_Original ==
    \A k \in 1..Len(allModels) : \A i \in 1..Len(allModels[k].periods) :
        /\ allModels[k].periods[i].year % Scale = 0
        /\ allModels[k].periods[i].year \div Scale \in 2020..2040

\* C8: every period of every emitted model block has a field that is not null; the
\* periods of the block whose fields are all null were removed, the others kept.
C8_NoEmptyPeriod ==
    \A k \in 1..Len(allModels) :
        /\ \A i \in 1..Len(allModels[k].periods) : HasData(allModels[k].periods[i])
        /\ allModels[k].periods = SelectSeq(Emitted[k].log.rawPeriods, HasData)

\* C8: a block was emitted after a period without any value was removed from it
C8_Witness ==
    \E k \in 1..Len(allModels) :
        Len(allModels[k].periods) < Len(Emitted[k].log.rawPeriods)

\* C9: a model block is emitted only if one of its periods has a field that is not
\* null; a block without such a period is dropped; each dropped block has a warning
\* that names it, and there are as many such warnings as dropped blocks.
C9_EmittedOnlyWithData ==
    /\ \A k \in 1..Len(allModels) :
          \E i \in 1..Len(allModels[k].periods) : HasData(allModels[k].periods[i])
    /\ \A b \in 1..Len(blockLog) :
          (\A i \in 1..Len(blockLog[b].log.rawPeriods) :
               ~HasData(blockLog[b].log.rawPeriods[i])) => ~blockLog[b].emitted
    /\ Len(DropWarnings) = Len(Dropped)
    /\ \A b \in 1..Len(Dropped) :
          /\ DropWarnings[b].name = Dropped[b].log.name
          /\ DropWarnings[b].sheet = workbook[Dropped[b].sheet].name

\* C9: one block was dropped for want of a year header, another for want of data
C9_Witness ==
    /\ \E b \in 1..Len(Dropped) : Dropped[b].log.headerRow = 0
    /\ \E b \in 1..Len(Dropped) : Dropped[b].log.headerRow # 0

Reported(name, rows) ==
    \E w \in 1..Len(warnings) :
        /\ warnings[w].kind = "unmapped"
        /\ warnings[w].name = name
        /\ warnings[w].rows = rows

UnmappedKept(model, unmapped, writes) ==
    /\ model.unmappedRows = SelectSeq(LabelsOf(unmapped), LAMBDA label : Len(label) > 1)
    /\ model.unmappedRows # <<>> => Reported(model.name, model.unmappedRows)
    /\ \A u \in 1..Len(unmapped) : \A w \in writes : w[1] # unmapped[u].row

RowsLabelled(log, l) == SelectSeq(log.rowLog, LAMBDA e : normalizeLabel(e.label) = l)
\* The fields row r of the block was written to
FieldsOfRow(log, r) == {w[3] : w \in {x \in log.writes : x[1] = r}}

L_PctGrowth == <<"%"," ","g","r","o","w","t","h">>

GrowthByContext(log, e) ==
    IF e.ctx.lastSection = "ebitda" THEN e.what = "unmapped"
    ELSE e.what = "mapped" /\ FieldsOfRow(log, e.row) = {"revenue_growth"}

\* C11 (as claimed): a row labelled "% growth" is resolved to revenue growth when the
\* last section seen before it in its block is not EBITDA, and to no field when the
\* last section seen is EBITDA.
C11_Original ==
    \A b \in 1..Len(blockLog) :
        \A i \in 1..Len(RowsLabelled(blockLog[b].log, L_PctGrowth)) :
            GrowthByContext(blockLog[b].log, RowsLabelled(blockLog[b].log, L_PctGrowth)[i])

L_EbitdaManaged ==
    <<"e","b","i","t","d","a"," ","m","a","n","a","g","e","d"," ","s","e","r","v","i","c","e","s">>
L_PctMargin == <<"%"," ","m","a","r","g","i","n">>

\* The indices i of the block's row log at which a row labelled first is
\* immediately followed by a row labelled second
FollowedBy(log, first, second) ==
    {i \in 1..(Len(log.rowLog) - 1) :
        /\ normalizeLabel(log.rowLog[i].label) = first
        /\ normalizeLabel(log.rowLog[i + 1].label) = second
        /\ log.rowLog[i + 1].row = log.rowLog[i].row + 1}

\* No row of the block after row r was written to field of period pi
LastWrite(log, r, pi, field) == \A w \in log.writes : w[2] = pi /\ w[3] = field => w[1] <= r

\* Row r of the sheet went to field, and to no other field, in every period in
\* which it has a number
RowWrittenTo(ws, log, r, field) ==
    \A pi \in 1..Len(log.yearCols) :
        cellNum(getCell(ws, r, log.yearCols[pi].col)) # <<>> =>
            /\ {w[3] : w \in {x \in log.writes : x[1] = r /\ x[2] = pi}} = {field}
            /\ LastWrite(log, r, pi, field) =>
                   log.rawPeriods[pi].f[field] =
                       cellNum(getCell(ws, r, log.yearCols[pi].col))

\* C12: when a row labelled "EBITDA managed services" is immediately followed by a
\* row labelled "% margin", the numbers of the "% margin" row are written to the
\* managed-services margin field, and not to the blended EBITDA margin field, for
\* every period.
C12_MarginAfterManaged ==
    \A b \in 1..Len(blockLog) :
        \A i \in FollowedBy(blockLog[b].log, L_EbitdaManaged, L_PctMargin) :
            /\ blockLog[b].log.rowLog[i + 1].what = "mapped"
            /\ RowWrittenTo(workbook[blockLog[b].sheet], blockLog[b].log,
                            blockLog[b].log.rowLog[i + 1].row, "margin_managed_services")

\* C12: a model was emitted whose "% margin" row, right after "EBITDA managed
\* services", gave the managed-services margins 30 and 31 and no EBITDA margin
C12_Witness ==
    \E k \in 1..Len(allModels) :
        /\ FollowedBy(Emitted[k].log, L_EbitdaManaged, L_PctMargin) # {}
        /\ Len(allModels[k].periods) = 2
        /\ allModels[k].periods[1].f["margin_managed_services"] = <<30 * Scale>>
        /\ allModels[k].periods[2].f["margin_managed_services"] = <<31 * Scale>>
        /\ allModels[k].periods[1].f["ebitda_margin"] = <<>>

\* The row was mapped, and its numbers went to field and to no other field
MappedTo(log, e, field) == e.what = "mapped" /\ FieldsOfRow(log, e.row) = {field}

\* C13 (as claimed): a row whose label is one of the documented labels is mapped to
\* the field the documentation names for it: "Revenue" to revenue_total, "EBITDA" to
\* ebitda_total, "EBITDA %" to ebitda_margin, "Organic growth %" to organic_growth,
\* "Acquired revenue" to acquired_revenue, "Number of shares" to share_count, "NIBD"
\* to nibd, "Option debt" to option_debt, "EV" to enterprise_value, "EQV" to
\* equity_value, "Preferred equity" to preferred_equity, "Per share (before MIP &
\* TSO)" to per_share_pre, "MIP" to mip_amount, "TSO" to tso_amount, "Existing
\* warrants" to warrants_amount, "EQV (post MIP, TSO, ExW)" to eqv_post_dilution and
\* "Per share (post MIP, TSO, ExW)" to per_share_post.
C13_Original ==
    \A b \in 1..Len(blockLog) : \A i \in 1..Len(blockLog[b].log.rowLog) :
        \A d \in 1..Len(DocumentedLabels) :
            (blockLog[b].log.rowLog[i].label = DocumentedLabels[d].label
                /\ blockLog[b].log.rowLog[i].hasData)
              => MappedTo(blockLog[b].log, blockLog[b].log.rowLog[i],
                          DocumentedLabels[d].field)

\* The field the row of a log entry was mapped to
FieldOf(e) == mapLabelToField(e.label, e.ctx).field[1]

\* The cell of row r in the column of period pi holds text as its own value
TextAt(ws, log, r, pi) == getCell(ws, r, log.yearCols[pi].col).t = "str"
TrimmedAt(ws, log, r, pi) == Trim(getCell(ws, r, log.yearCols[pi].col).s)

\* The mapped row e gave period pi the number v
Gave(log, e, pi, v) ==
    /\ <<e.row, pi, FieldOf(e)>> \in log.writes
    /\ LastWrite(log, e.row, pi, FieldOf(e)) => log.rawPeriods[pi].f[FieldOf(e)] = <<v>>

ReadAs(ws, log, e, pi) ==
    TextAt(ws, log, e.row, pi) =>
        /\ TrimmedAt(ws, log, e.row, pi) \in Sentinels =>
               <<e.row, pi, FieldOf(e)>> \notin log.writes
        /\ \A v \in Amounts : \A st \in Styles :
              TrimmedAt(ws, log, e.row, pi) = FormatAmount(v, st) => Gave(log, e, pi, v)

\* C14: a text cell of a mapped row that writes a number with a decimal comma and
\* spaces (or no-break spaces) or nothing between the thousands, or with both a
\* comma and a dot where the later of the two is the decimal mark, is read as that
\* number ("1 105,0", "1,105.0" and "1.105,0" as 1105.0); the texts "-", "--" and
\* "n/a" are read as null.
C14_NumberText ==
    \A b \in 1..Len(blockLog) : \A i \in 1..Len(blockLog[b].log.rowLog) :
        blockLog[b].log.rowLog[i].what = "mapped" =>
            \A pi \in 1..Len(blockLog[b].log.yearCols) :
                ReadAs(workbook[blockLog[b].sheet], blockLog[b].log,
                       blockLog[b].log.rowLog[i], pi)

\* C14: a model was emitted whose Revenue row read "1 105,0" and "1,105.0" as
\* 1105.0, each in its period
C14_Witness ==
    \E k \in 1..Len(allModels) :
        /\ Len(allModels[k].periods) = 3
        /\ TrimmedAt(workbook[Emitted[k].sheet], Emitted[k].log, 2, 1)
              = <<"1"," ","1","0","5",",","0">>
        /\ TrimmedAt(workbook[Emitted[k].sheet], Emitted[k].log, 2, 3)
              = <<"1",",","1","0","5",".","0">>
        /\ allModels[k].periods[1].f["revenue_total"] = <<1105 * Scale>>
        /\ allModels[k].periods[3].f["revenue_total"] = <<1105 * Scale>>

\* A number written with a decimal comma (thousands apart by white space or dots)
\* or with a decimal dot (thousands apart by white space or commas)
RxCommaNumber == Cat(<<Bol, Opt(Cls({"+","-"})), Plus(Dg), Star(Cat(<<Alt(<<Sp, Lit(<<".">>)>>), Dg, Dg, Dg>>)), Opt(Cat(<<Lit(<<",">>), Plus(Dg)>>)), Eol>>)
RxDotNumber == Cat(<<Bol, Opt(Cls({"+","-"})), Plus(Dg), Star(Cat(<<Alt(<<Sp, Lit(<<",">>)>>), Dg, Dg, Dg>>)), Opt(Cat(<<Lit(<<".">>), Plus(Dg)>>)), Eol>>)
IsNumberText(s) == Test(RxCommaNumber, s) \/ Test(RxDotNumber, s)

\* The other cells of the row that hold a number gave it to their period
OthersRead(ws, log, e, pi) ==
    \A pk \in 1..Len(log.yearCols) :
        (pk # pi /\ getCell(ws, e.row, log.yearCols[pk].col).t = "num") =>
            Gave(log, e, pk, getCell(ws, e.row, log.yearCols[pk].col).n)

NotANumberIsNull(ws, log, e, pi) ==
    (TextAt(ws, log, e.row, pi) /\ ~IsNumberText(TrimmedAt(ws, log, e.row, pi))) =>
        /\ <<e.row, pi, FieldOf(e)>> \notin log.writes
        /\ OthersRead(ws, log, e, pi)

\* C15 (as claimed): a text cell of a mapped row that is not a number under either
\* convention is read as null: no number is written for it, and the other cells of
\* the row are still read.
C15_Original ==
    \A b \in 1..Len(blockLog) : \A i \in 1..Len(blockLog[b].log.rowLog) :
        blockLog[b].log.rowLog[i].what = "mapped" =>
            \A pi \in 1..Len(blockLog[b].log.yearCols) :
                NotANumberIsNull(workbook[blockLog[b].sheet], blockLog[b].log,
                                 blockLog[b].log.rowLog[i], pi)

\* What the extraction of one sheet yields on its own: parseInputParameters over the
\* rows above the first block (or above the year header), then the second pass
ExtractedAbove(ws, startRow, endRow, labelCol) ==
    enrichInputParameters(ws, parseInputParameters(ws, endRow, labelCol), startRow,
                          rowCount(ws), labelCol)
ExtractedBeforeBlock(ws, startRow) ==
    ExtractedAbove(ws, startRow, startRow, findLabelColumn(ws, 1, startRow))
ExtractionOf(ws, strategy) ==
    IF strategy = "name" THEN ExtractedBeforeBlock(ws, findNameBlocks(ws)[1].startRow)
    ELSE IF strategy = "whole"
    THEN ExtractedAbove(ws, 1,
                        ParamsEndRow(ws, findYearHeader(ws, 1, rowCount(ws), StrictMinCols)),
                        findLabelColumn(ws, 1, rowCount(ws)))
    ELSE EmptyParams

HasValue(ps) == \E k \in ParamKeys : ps.val[k] # <<>>

\* The entries of the sheet log whose sheet yields a parameter value
Yielding ==
    {i \in 1..Len(sheetLog) :
        HasValue(ExtractionOf(workbook[sheetLog[i].sheet], sheetLog[i].strategy))}

ParamsOfFirst(yielding) ==
    IF yielding = {} THEN ~HasValue(inputParameters)
    ELSE inputParameters.val =
            ExtractionOf(workbook[sheetLog[MinOf(yielding)].sheet],
                         sheetLog[MinOf(yielding)].strategy).val

\* C16 (as claimed): the input parameters of a returned Parse Result are those of the
\* first sheet, in workbook order, whose extraction yields a parameter value: a sheet
\* that yields no value does not keep a later sheet's parameters from being used,
\* and later sheets change nothing once parameters are set.
C16_Original == pc = "returned" => ParamsOfFirst(Yielding)

\* The second call on the same buffer and name has returned or thrown
ParsedTwice == previous # <<>> /\ pc \in {"returned", "thrown"}

C18_AllOrNothing ==
    /\ ipc # "idle" => db = before
    /\ response = 500 => db = before

\* C18: a statement failed after the transaction had created a model and stored a
\* period of it, and the tables are as they were
C18_Witness ==
    /\ response = 500
    /\ ipc = "idle"
    /\ summary.models_created > 0
    /\ pj > 1
    /\ db = before

\* The last upload was committed and no other has begun
Committed == ipc = "idle" /\ response = 201

NamesOf(result) == {result.models[i].name : i \in 1..Len(result.models)}
\* The period dates of the blocks of the result that bear the name
DatesFor(result, name) ==
    UNION {{result.models[i].periods[j].period_date :
                j \in 1..Len(result.models[i].periods)} :
           i \in {i \in 1..Len(result.models) : result.models[i].name = name}}
\* The stored periods of the company's model of that name
StoredFor(t, name) ==
    {r \in t.periods : \E m \in ExistingModels(t, Acme, name) : m.id = r.model_id}
DatesOf(rows) == {r.period_date : r \in rows}

\* The stored periods of the name that the result has no period for
Untouched(t, result, name) ==
    {r \in StoredFor(t, name) : r.period_date \notin DatesFor(result, name)}

\* C19 (as amended): when a model name is re-imported, its stored periods are merged
\* with those of the new block: every period of the new block is stored under its
\* date, and every period stored before whose date is absent from the new block
\* still exists, unchanged.
C19_PeriodsMerged ==
    Committed =>
        \A name \in NamesOf(parseResult) :
            /\ DatesOf(StoredFor(db, name))
                  = DatesFor(parseResult, name) \cup DatesOf(StoredFor(before, name))
            /\ Untouched(before, parseResult, name) \subseteq StoredFor(db, name)

\* C19: a model was re-imported, and a period stored for it before, of a year the new
\* block does not have, is still stored
C19_Witness ==
    /\ Committed
    /\ \E name \in NamesOf(parseResult) :
          /\ Untouched(before, parseResult, name) # {}
          /\ Untouched(before, parseResult, name) \subseteq StoredFor(db, name)

\* C19 (as claimed): after a model name is re-imported the stored periods of the
\* model are exactly the periods of the new block: a period stored before whose
\* year is absent from the new block no longer exists.
C19_Original ==
    Committed =>
        \A name \in NamesOf(parseResult) :
            DatesOf(StoredFor(db, name)) = DatesFor(parseResult, name)

\* What the last period statement left in the tables under its key
Seen == IF tx # <<>> THEN tx[1] ELSE db
StoredBy(u) == Conflicting(Seen, u.model_id, u.new)

FieldsMerged(u, rows) ==
    /\ Cardinality(rows) = 1
    /\ \A r \in rows : \A k \in FieldKeys :
          /\ u.new.f[k] # <<>> => r.f[k] = u.new.f[k]
          /\ u.new.f[k] = <<>> => \A o \in u.old : r.f[k] = o.f[k]

\* C20: after a Period is stored for a (model, date) that had a stored period, every
\* field that is not null on the new Period holds the new value and every field
\* that is null on it holds the value stored before.
C20_NullKeepsStored == lastUpsert # <<>> => FieldsMerged(lastUpsert[1], StoredBy(lastUpsert[1]))

\* C20: a period was stored over one that had revenue and EBITDA, with a new revenue
\* and no EBITDA: the stored revenue is the new one, the stored EBITDA the old one
C20_Witness ==
    /\ lastUpsert # <<>>
    /\ \E o \in lastUpsert[1].old : \E r \in StoredBy(lastUpsert[1]) :
          /\ o.f["ebitda_total"] # <<>>
          /\ lastUpsert[1].new.f["ebitda_total"] = <<>>
          /\ r.f["ebitda_total"] = o.f["ebitda_total"]
          /\ lastUpsert[1].new.f["revenue_total"] # <<>>
          /\ o.f["revenue_total"] # <<>>
          /\ o.f["revenue_total"] # lastUpsert[1].new.f["revenue_total"]
          /\ r.f["revenue_total"] = lastUpsert[1].new.f["revenue_total"]

\* The ids of the models of a company that bear the name
IdsNamed(t, companyId, name) == {m.id : m \in ExistingModels(t, companyId, name)}

\* C21: after any sequence of imports there is exactly one stored model for each
\* Model Block name of a committed upload, and never two of one name: a block whose
\* name was stored before (by an earlier import or an earlier block of the upload)
\* keeps the id of the stored model.
C21_OneModelPerName ==
    /\ \A m1, m2 \in Seen.models :
          (m1.company_id = m2.company_id /\ m1.name = m2.name) => m1 = m2
    /\ Committed =>
          \A name \in NamesOf(parseResult) :
              /\ Cardinality(IdsNamed(db, Acme, name)) = 1
              /\ IdsNamed(before, Acme, name) \subseteq IdsNamed(db, Acme, name)

\* C21: an upload with two blocks of one name, the name stored by an earlier import,
\* was committed: the name has the one model it had
C21_Witness ==
    /\ Committed
    /\ Len(parseResult.models) > 1
    /\ parseResult.models[1].name = parseResult.models[2].name
    /\ summary.models_updated > 1
    /\ IdsNamed(before, Acme, parseResult.models[1].name) # {}
    /\ IdsNamed(db, Acme, parseResult.models[1].name)
          = IdsNamed(before, Acme, parseResult.models[1].name)

\* What the Value Reader may return: null, a number, a text string, a date
PlainKinds == {"null", "num", "str", "date"}
ReadsPlain(cell) == cellValue(cell).t \in PlainKinds

\* C22 (as claimed): for every kind of raw cell the Value Reader returns a number, a
\* text string, a date or null, never a structured object: so it is for the label
\* cell and the year-column cells of every row the parser read.
C22_Original ==
    \A b \in 1..Len(blockLog) : \A i \in 1..Len(blockLog[b].log.rowLog) :
        /\ ReadsPlain(getCell(workbook[blockLog[b].sheet], blockLog[b].log.rowLog[i].row,
                              blockLog[b].log.labelCol))
        /\ \A pi \in 1..Len(blockLog[b].log.yearCols) :
              ReadsPlain(getCell(workbook[blockLog[b].sheet],
                                 blockLog[b].log.rowLog[i].row,
                                 blockLog[b].log.yearCols[pi].col))

\* The rows of the block of a log: startRow..endRow-1, within the sheet
RowsOfBlock(ws, log) == {r \in log.startRow..(log.endRow - 1) : r <= rowCount(ws)}
\* The rows among rs that have at least n distinct in-range years
RowsWithYears(ws, rs, n) == {r \in rs : Len(RowYearCols(ws, r, RelaxedMinCols)) >= n}
FirstOrNone(rs) == IF rs = {} THEN 0 ELSE MinOf(rs)
\* The first row of rs with two distinct years if any has them, otherwise the first
\* with one; 0 when none has a year
HeaderAmong(ws, rs) ==
    IF RowsWithYears(ws, rs, StrictMinCols) # {}
    THEN MinOf(RowsWithYears(ws, rs, StrictMinCols))
    ELSE FirstOrNone(RowsWithYears(ws, rs, RelaxedMinCols))
NoYearsWarned(name) ==
    \E i \in 1..Len(warnings) : warnings[i].kind = "no_years" /\ warnings[i].name = name
HeaderIs(e, expected) ==
    /\ e.log.headerRow = expected
    /\ expected = 0 => ~e.emitted /\ NoYearsWarned(e.log.name)

\* C23 (as claimed): the year header of a block is the first row of the block with at
\* least 2 distinct in-range years if a row of the block has them, otherwise the
\* first row of the block with at least 1; if no row of the block qualifies the
\* block is dropped with a warning.
C23_Original ==
    Finished =>
        \A b \in 1..Len(blockLog) :
            HeaderIs(blockLog[b],
                     HeaderAmong(workbook[blockLog[b].sheet],
                                 RowsOfBlock(workbook[blockLog[b].sheet], blockLog[b].log)))

\* The sheet with every cell of the rows outside lo..hi-1 emptied
EmptiedOutside(ws, lo, hi) ==
    [ws EXCEPT !.rows = [r \in 1..Len(ws.rows) |->
                            IF r >= lo /\ r < hi THEN ws.rows[r]
                            ELSE [c \in 1..Len(ws.rows[r]) |-> NullCell]]]
\* The model parseBlock gives for the block of a log in the sheet
ModelOfBlock(ws, log) ==
    parseBlock(ws, log.startRow, log.endRow, log.name, currentYear).model
SameWithoutOutside(ws, log) ==
    ModelOfBlock(EmptiedOutside(ws, log.startRow, log.endRow), log) = ModelOfBlock(ws, log)

\* C26 (as claimed): parsing a block reads only the rows startRow..endRow-1 of its
\* range: the year header found is a row of the range, and the model produced for
\* the block is the same when the rows outside the range are emptied.
C26_Original ==
    Finished =>
        \A b \in 1..Len(blockLog) :
            /\ blockLog[b].log.headerRow
                  \in RowsOfBlock(workbook[blockLog[b].sheet], blockLog[b].log) \cup {0}
            /\ SameWithoutOutside(workbook[blockLog[b].sheet], blockLog[b].log)

\* The rows after the title row of a block at which a run of GapRows or more fully
\* empty rows begins that a row with content follows, before any later title
EmptyFrom(ws, r, n) == \A k \in r..(r + n - 1) : k <= rowCount(ws) /\ ~RowHasContent(ws, k)
ContentAfter(ws, r) == \E k \in (r + 1)..rowCount(ws) : RowHasContent(ws, k)
TitlesOf(si) == {blockLog[b].log.startRow : b \in {b \in 1..Len(blockLog) : blockLog[b].sheet = si}}
RunsIn(ws, startRow, titles) ==
    {r \in (startRow + 1)..rowCount(ws) :
        /\ EmptyFrom(ws, r, GapRows)
        /\ ContentAfter(ws, r + GapRows - 1)
        /\ RowHasContent(ws, r - 1)
        /\ \A t \in titles : ~(startRow < t /\ t < r)}
EndsAtRun(log, runs) == runs # {} => log.endRow = MinOf(runs)

\* C24 (as claimed): in section-heuristic segmentation a run of three or more fully
\* empty rows closes the current block: the end row of the block is the first row
\* of the run, so the rows after the run are not rows of the block.
C24_Original ==
    Finished =>
        \A b \in 1..Len(blockLog) :
            blockLog[b].strategy = "section" =>
                EndsAtRun(blockLog[b].log,
                          RunsIn(workbook[blockLog[b].sheet], blockLog[b].log.startRow,
                                 TitlesOf(blockLog[b].sheet)))

\* A period has a value in revenue_total, ebitda_total, enterprise_value,
\* equity_value, nibd or share_count
HasKeyValue(p) ==
    \/ p.f["revenue_total"] # <<>>
    \/ p.f["ebitda_total"] # <<>>
    \/ p.f["enterprise_value"] # <<>>
    \/ p.f["equity_value"] # <<>>
    \/ p.f["nibd"] # <<>>
    \/ p.f["share_count"] # <<>>
NoDataWarned(name) ==
    \E i \in 1..Len(warnings) : warnings[i].kind = "no_data" /\ warnings[i].name = name
EmittedByKeyValue(e) ==
    /\ e.emitted <=> \E i \in 1..Len(e.log.rawPeriods) : HasKeyValue(e.log.rawPeriods[i])
    /\ ~e.emitted => NoDataWarned(e.log.name)

\* C25: a block with a year header is emitted if and only if one of its periods has
\* a value in one of the six key fields; a block whose mapped values are all in
\* other fields is dropped with a warning, although its periods are not all null.
C25_KeyFieldsDecide ==
    \A b \in 1..Len(blockLog) :
        blockLog[b].log.headerRow # 0 => EmittedByKeyValue(blockLog[b])

\* C25: a block with a year header and a capex value, and no value in a key field,
\* was dropped with the warning
C25_Witness ==
    \E b \in 1..Len(blockLog) :
        /\ blockLog[b].log.headerRow # 0
        /\ ~blockLog[b].emitted
        /\ \E i \in 1..Len(blockLog[b].log.rawPeriods) :
              blockLog[b].log.rawPeriods[i].f["capex"] # <<>>
        /\ NoDataWarned(blockLog[b].log.name)

\* C27 (as claimed): a row whose label names a sub-field is mapped to that sub-field,
\* not to the field of an earlier, more general rule: "EBITDA managed services" to
\* ebitda_managed_services, "EBITDA professional services" to
\* ebitda_professional_services and "Capex % of revenue" to capex_pct_revenue.
C27_Original ==
    \A b \in 1..Len(blockLog) : \A i \in 1..Len(blockLog[b].log.rowLog) :
        \A d \in 1..Len(SubFieldLabels) :
            (blockLog[b].log.rowLog[i].label = SubFieldLabels[d].label
                /\ blockLog[b].log.rowLog[i].hasData)
              => MappedTo(blockLog[b].log, blockLog[b].log.rowLog[i],
                          SubFieldLabels[d].field)

\* The cell holds a number, or a text that writes one
IsNumericValue(v) == v.t = "num" \/ (v.t = "str" /\ IsNumberText(Trim(v.s)))
IsNumericCell(cell) == IsNumericValue(cellValue(cell))
CellOf(ws, log, i, pi) == getCell(ws, log.rowLog[i].row, log.yearCols[pi].col)
\* A row of the block after entry i is mapped to field f and is numeric in period pi
LaterNumeric(ws, log, i, pi, f) ==
    \E j \in (i + 1)..Len(log.rowLog) :
        /\ log.rowLog[j].what = "mapped"
        /\ IsNumericCell(CellOf(ws, log, j, pi))
        /\ FieldOf(log.rowLog[j]) = f
\* The row of entry i, when it is the last row mapped to f that is numeric in
\* period pi, gives the period its value of f
LastNumericGives(ws, log, i, pi, f) ==
    (IsNumericCell(CellOf(ws, log, i, pi)) /\ ~LaterNumeric(ws, log, i, pi, f)) =>
        log.rawPeriods[pi].f[f] = cellNum(CellOf(ws, log, i, pi))

\* C28 (as claimed): when several rows of one block map to the same field, each
\* period's value of the field is that of the last such row whose cell in the
\* period's column is numeric: an empty or non-numeric cell of a later row neither
\* overwrites nor clears it.
C28_Original ==
    \A b \in 1..Len(blockLog) : \A i \in 1..Len(blockLog[b].log.rowLog) :
        blockLog[b].log.rowLog[i].what = "mapped" =>
            \A pi \in 1..Len(blockLog[b].log.yearCols) :
                LastNumericGives(workbook[blockLog[b].sheet], blockLog[b].log, i, pi,
                                 FieldOf(blockLog[b].log.rowLog[i]))

\* C29 (as claimed): every Model Block of a Parse Result has a non-empty name,
\* whichever strategy produced it: the marker text, the section label, the sheet
\* name, or the name derived from the uploaded filename.
C29_Original ==
    \A k \in 1..Len(allModels) : allModels[k].name # <<>>

\* Both requests have been answered
AllDone == \A s \in Sessions : sessions[s].pc = "done"

\* C30 (as claimed): under every interleaving of two imports at the same time for
\* one company, neither import fails on the (company, name) uniqueness constraint,
\* and when both have ended exactly one stored model bears each name they carried.
C30_Original ==
    /\ \A s \in Sessions : sessions[s].error # "unique_violation"
    /\ AllDone =>
          \A s \in Sessions :
              Cardinality(IdsNamed(db, Acme, sessions[s].result.models[1].name)) = 1

====
